---- MODULE Spec2Model ----
(***************************************************************************)
(* Batch-scan orchestration of Backend/app/services/scan_service.py:       *)
(* ScanTask records, the _run_scan driver thread of each task, the units   *)
(* (scan_single_stock) run by the shared ThreadPoolExecutor, cancel_scan   *)
(* and the lock-free readers (get_result / to_result), the progress stream *)
(* of Backend/app/api/scan_api.py (event_generator polling get_progress),  *)
(* the reaper of the lookup (cleanup_old_tasks) and delete_task.           *)
(*                                                                         *)
(* A step of the model is one atomic effect of the Python code: one field  *)
(* read or write outside a lock, or one statement inside the critical      *)
(* section of task.lock.  In the orchestration the analysis engine         *)
(* (ChanService.calculate_chan) followed by filter_buy_points is abstracted *)
(* to its outcome: the number of points that survive the filter, or an     *)
(* exception.  The store (scan_tasks, scan_results, stocks), the resolver  *)
(* (get_stock_list) and filter_buy_points itself are modelled as the code  *)
(* computes them; ResolverSpec and FilterSpec apply the last two to every  *)
(* input of a bounded space.  ScanTask.progress is computed as Python      *)
(* does, in IEEE 754 double arithmetic (ProgressSpec).  Tasks started      *)
(* earlier on the shared pool appear as the work items they have queued    *)
(* and the pool threads they occupy (SharedSpec).                          *)
(***************************************************************************)
EXTENDS Integers, Sequences, FiniteSets, TLC

\* ---------------------------------------------------------------- bounds
\* longest bs_points list handed to filter_buy_points
MaxBsp == 2
\* largest time_window_days
MaxWindow == 1
\* longest boards list of a request
MaxBoards == 2
\* longest stock_codes list of a request
MaxCodes == 2
\* largest resolved universe (len(stocks)) of a task
MaxStocks == 2
\* largest number of filtered buy points one unit returns
MaxPoints == 1
\* ceiling of the shared pool (15 in the source), scaled down below MaxStocks
\* so that work items wait in the queue while the pool is saturated
MAX_WORKERS == 1
\* progress snapshots an observer takes before it disconnects
MaxEvents == 3
\* ticks of time.time()
MaxClock == 2
\* units of earlier tasks queued in the pool when a scan starts
MaxEarlier == 2
\* largest total_count ScanTask.progress is evaluated on
MaxTotal == 50

\* The task ids the model follows.  ScanTask records share no state with each
\* other; the only thing tasks share is the executor.
TaskIds == {"T1"}
Units == 1..MaxStocks

Terminal == {"completed", "cancelled", "error"}

VARIABLES
    tasks,            \* ScanService.tasks: the ids in the in-process lookup
    status,           \* ScanTask.status ("none": the record does not exist yet)
    total_count,      \* ScanTask.total_count
    processed_count,  \* ScanTask.processed_count
    found_count,      \* ScanTask.found_count
    results,          \* ScanTask.results: sequence of items <<unit, index>>
    cancelled,        \* ScanTask.cancelled
    current_stock,    \* ScanTask.current_stock (0 is None)
    error_message,    \* ScanTask.error_message is set
    lock,             \* ScanTask.lock: "free" or its holder
    pc,               \* position of the _run_scan thread of each task
    cur,              \* the future the driver is handling (0: none)
    ust,              \* state of each unit's future / work item
    ret,              \* how scan_single_stock ended and how many items it returned
    slow,             \* history: the unit's engine call ran longer than
                      \* SINGLE_STOCK_TIMEOUT
    workq,            \* ThreadPoolExecutor work queue (FIFO) of <<task, unit>>
    earlier,          \* pool threads executing a unit of a task started earlier
    cpc,              \* position of a cancel_scan call on each task
    cret,             \* return value of the last cancel_scan call: "none", "true", "false"
    rpc,              \* position of a get_result call on each task
    snap,             \* the ScanResultResponse the last get_result built
    started_at_cancel,\* history: the units that had passed their cancel check when
                      \* the cancel flag was first set
    db_task,          \* store: the scan_tasks row of each task id
    db_results,       \* store: the scan_results rows of each task id, in insert order
    store_up,         \* the store accepts connections (get_db_connection succeeds)
    sres,             \* how the last start_scan call ended: "none", "ok",
                      \* "rejected" (ValueError) or "failed" (the store raised)
    request,          \* the ScanRequest of start_scan: stock_pool, boards, stock_codes
    catalog,          \* store: the codes of the stocks table, in ORDER BY code order
    stocks,           \* the list get_stock_list returned to start_scan
    bs_points,        \* filter_buy_points: the points of the engine's result
    bsp_types,        \* filter_buy_points: the caller's accepted types, in order
    time_window_days, \* filter_buy_points: the recency window
    now,              \* datetime.now() of the filter_buy_points call, in seconds
    recent,           \* what filter_buy_points returned, or that it raised
    percent,          \* a call of ScanTask.progress: the two counters and the value
    counted,          \* history: the units whose completion the driver has counted
    opc,              \* position of the progress stream (event_generator) of each task
    osnap,            \* the ScanProgress the stream is building
    stream,           \* the snapshots the stream has emitted, in order
    clock,            \* time.time(), in ticks
    start_time,       \* ScanTask.start_time
    reaper,           \* the call of cleanup_old_tasks: position, current_time, horizon
    dpc,              \* position of a delete_task call on each task
    dret              \* return value of the last delete_task call: "none", "true", "false"

taskvars == <<tasks, status, total_count, processed_count, found_count, results,
              cancelled, current_stock, error_message, lock>>
drivervars == <<pc, cur, counted>>
unitvars == <<ust, ret, slow, workq, earlier>>
cancelvars == <<cpc, cret, started_at_cancel>>
readervars == <<rpc, snap>>
deletevars == <<dpc, dret>>
storevars == <<db_task, db_results, store_up, sres>>
requestvars == <<request, catalog, stocks>>
filtervars == <<bs_points, bsp_types, time_window_days, now, recent, percent>>
observervars == <<opc, osnap, stream>>
clockvars == <<clock, start_time, reaper>>
vars == <<taskvars, drivervars, unitvars, cancelvars, readervars, deletevars, storevars,
          requestvars, filtervars, observervars, clockvars>>

NoSnap == [st |-> "none", pc |-> 0, fc |-> 0, n |-> 0]

\* a ScanProgress of which nothing has been evaluated yet
NoProgress == [st |-> "none", progress |-> 0, pc |-> 0]

\* no scan_tasks row with this id
NoRow == [st |-> "none", tc |-> 0, pc |-> 0, fc |-> 0, err |-> FALSE, done |-> FALSE]

\* scan_single_stock has not returned yet
Pending == [how |-> "pending", n |-> 0]

\* ScanTask.__init__ / ScanService.__init__: no task exists yet
NoRecord ==
    /\ tasks = {}
    /\ status = [t \in TaskIds |-> "none"]
    /\ total_count = [t \in TaskIds |-> 0]
    /\ processed_count = [t \in TaskIds |-> 0]
    /\ found_count = [t \in TaskIds |-> 0]
    /\ results = [t \in TaskIds |-> <<>>]
    /\ cancelled = [t \in TaskIds |-> FALSE]
    /\ current_stock = [t \in TaskIds |-> 0]
    /\ error_message = [t \in TaskIds |-> FALSE]
    /\ lock = [t \in TaskIds |-> "free"]
    /\ pc = [t \in TaskIds |-> "none"]
    /\ cur = [t \in TaskIds |-> 0]
    /\ counted = [t \in TaskIds |-> {}]
    /\ opc = [t \in TaskIds |-> "none"]
    /\ osnap = [t \in TaskIds |-> NoProgress]
    /\ stream = [t \in TaskIds |-> <<>>]
    /\ clock = 0
    /\ start_time = [t \in TaskIds |-> 0]
    /\ reaper = [pc |-> "idle", current_time |-> 0, max_age_seconds |-> 0]
    /\ ust = [t \in TaskIds |-> [u \in Units |-> "none"]]
    /\ ret = [t \in TaskIds |-> [u \in Units |-> Pending]]
    /\ slow = [t \in TaskIds |-> [u \in Units |-> FALSE]]
    /\ cpc = [t \in TaskIds |-> "idle"]
    /\ cret = [t \in TaskIds |-> "none"]
    /\ rpc = [t \in TaskIds |-> "idle"]
    /\ snap = [t \in TaskIds |-> NoSnap]
    /\ dpc = [t \in TaskIds |-> "idle"]
    /\ dret = [t \in TaskIds |-> "none"]
    /\ started_at_cancel = [t \in TaskIds |-> {}]
    /\ db_task = [t \in TaskIds |-> NoRow]
    /\ db_results = [t \in TaskIds |-> <<>>]
    /\ sres = [t \in TaskIds |-> "none"]
    /\ stocks = [t \in TaskIds |-> <<>>]

\* ThreadPoolExecutor(max_workers=MAX_WORKERS): nothing queued, every thread idle
IdlePool ==
    /\ workq = <<>>
    /\ earlier = 0

\* nothing exists yet
NoTask == NoRecord /\ IdlePool

\* filter_buy_points has not been called
NotCalled == [done |-> FALSE, raised |-> FALSE, out |-> <<>>]

\* ScanTask.progress has not been evaluated
NoPercent == [processed |-> 0, total |-> 0, done |-> FALSE, value |-> 0]

\* no filter_buy_points call and no evaluation of ScanTask.progress is followed
NoFilterCall ==
    /\ bs_points = <<>>
    /\ bsp_types = <<>>
    /\ time_window_days = 0
    /\ now = 0
    /\ recent = NotCalled
    /\ percent = NoPercent

\* ------------------------------------------------------- the resolver
\* Optional[List[str]]: None, or a list
None == [some |-> FALSE, val |-> <<>>]
Some(l) == [some |-> TRUE, val |-> l]
\* the truth value Python gives an Optional list: None and [] are false
Truthy(o) == o.some /\ o.val # <<>>

\* a code is the sequence of its characters; str.startswith
StartsWith(code, prefix) ==
    /\ Len(code) >= Len(prefix)
    /\ SubSeq(code, 1, Len(prefix)) = prefix

\* the keys of BOARD_PATTERNS
BoardNames == {"sh_main", "sz_main", "cyb", "kcb", "bj", "etf"}

\* BOARD_PATTERNS[board](code), for a key of the table
BOARD_PATTERNS(board, code) ==
    CASE board = "sh_main" -> StartsWith(code, <<"s", "h", ".", "6", "0">>)
      [] board = "sz_main" -> StartsWith(code, <<"s", "z", ".", "0", "0">>)
      [] board = "cyb" -> StartsWith(code, <<"s", "z", ".", "3", "0">>)
      [] board = "kcb" -> StartsWith(code, <<"s", "h", ".", "6", "8", "8">>)
      [] board = "bj" -> StartsWith(code, <<"b", "j", ".">>)
      [] board = "etf" -> \/ StartsWith(code, <<"s", "h", ".", "5", "1">>)
                          \/ StartsWith(code, <<"s", "h", ".", "5", "6">>)
                          \/ StartsWith(code, <<"s", "h", ".", "5", "8">>)
                          \/ StartsWith(code, <<"s", "z", ".", "1", "5">>)
                          \/ StartsWith(code, <<"s", "z", ".", "1", "6">>)
                          \/ StartsWith(code, <<"s", "z", ".", "1", "8">>)

\* get_all_stocks: SELECT code FROM stocks ORDER BY code, or [] when the
\* store raises
get_all_stocks == IF store_up THEN catalog ELSE <<>>

\* BoardLoop that goes on after a match: no break
RECURSIVE BoardLoop_NoBreak(_, _)
BoardLoop_NoBreak(boards, code) ==
    IF boards = <<>>
      THEN <<>>
      ELSE (IF Head(boards) \in BoardNames /\ BOARD_PATTERNS(Head(boards), code)
              THEN <<code>>
              ELSE <<>>) \o BoardLoop_NoBreak(Tail(boards), code)

\* for board in boards: pattern = BOARD_PATTERNS.get(board);
\* if pattern and pattern(code): filtered.append(code); break.
\* The value is what the loop appends for this code.
RECURSIVE BoardLoop(_, _)
BoardLoop(boards, code) ==
    IF boards = <<>>
      THEN <<>>
      ELSE IF Head(boards) \in BoardNames /\ BOARD_PATTERNS(Head(boards), code)
      THEN <<code>>
      ELSE BoardLoop(Tail(boards), code)

\* for code in all_stocks: ...
RECURSIVE CodeLoop(_, _)
CodeLoop(all_stocks, boards) ==
    IF all_stocks = <<>>
      THEN <<>>
      ELSE BoardLoop(boards, Head(all_stocks)) \o CodeLoop(Tail(all_stocks), boards)

\* get_stocks_by_boards(boards)
get_stocks_by_boards(boards) ==
    IF boards = <<>> THEN get_all_stocks ELSE CodeLoop(get_all_stocks, boards)

\* get_stock_list(stock_pool, boards, stock_codes)
get_stock_list(stock_pool, boards, stock_codes) ==
    IF stock_pool = "custom" /\ Truthy(stock_codes)
      THEN stock_codes.val
      ELSE IF stock_pool = "boards" /\ Truthy(boards)
      THEN get_stocks_by_boards(boards.val)
      ELSE get_all_stocks

\* sample codes, in the order ORDER BY code gives them: one per board pattern
\* and a Shanghai B share that no pattern matches
CodeList ==
    << <<"b", "j", ".", "4", "3", "0", "0", "4", "7">>,
       <<"s", "h", ".", "5", "1", "0", "3", "0", "0">>,
       <<"s", "h", ".", "6", "0", "0", "0", "0", "0">>,
       <<"s", "h", ".", "6", "8", "8", "0", "0", "1">>,
       <<"s", "h", ".", "9", "0", "0", "9", "0", "1">>,
       <<"s", "z", ".", "0", "0", "0", "0", "0", "1">>,
       <<"s", "z", ".", "1", "5", "9", "9", "1", "5">>,
       <<"s", "z", ".", "3", "0", "0", "7", "5", "0">> >>

\* the sequences over S of length at most n
SeqUpTo(S, n) == UNION {[1..m -> S] : m \in 0..n}

\* the request of a scan of the first n sample codes, given explicitly
CustomRequest(n) ==
    [stock_pool |-> "custom", boards |-> None,
     stock_codes |-> Some(SubSeq(CodeList, 1, n))]

\* the request with the defaults of ScanRequest: the whole catalog
DefaultRequest == [stock_pool |-> "all", boards |-> None, stock_codes |-> None]

\* the stocks tables start_scan is resolved against: the runs of consecutive
\* sample codes (sorted, no code twice: code is the primary key), the empty
\* table included
Catalogs ==
    {SubSeq(CodeList, i, j) : i \in 1..Len(CodeList), j \in 0..Len(CodeList)}

\* the values a request can give stock_pool, boards (the keys of the table and
\* a name that is not a key) and stock_codes (codes of the catalog, in any
\* order and number)
PoolInputs == {"all", "boards", "custom"}
BoardInputs == BoardNames \cup {"hk"}
CodeInputs == {CodeList[3], CodeList[8]}
OptionalLists(S, n) == {None} \cup {Some(l) : l \in SeqUpTo(S, n)}

\* start_scan on every request of the bounded input space, against every
\* catalog, and against a store that is down
InitResolver ==
    /\ NoTask
    /\ \/ store_up = TRUE /\ catalog \in Catalogs
       \/ store_up = FALSE /\ catalog = CodeList
    /\ request \in [stock_pool : PoolInputs,
                    boards : OptionalLists(BoardInputs, MaxBoards),
                    stock_codes : OptionalLists(CodeInputs, MaxCodes)]
    /\ NoFilterCall

\* ------------------------------------------------------ filter_buy_points
\* A string is the sequence of its pieces: a piece is the quote character or a
\* maximal run of other characters.
Quote == "'"

\* re.findall(r"'([^']+)'", s) from piece i on: a quote, a run, a quote is a
\* match and the search goes on after it; otherwise it goes on one piece later
RECURSIVE findall(_, _)
findall(s, i) ==
    IF i > Len(s)
      THEN <<>>
      ELSE IF /\ i + 2 <= Len(s)
              /\ s[i] = Quote /\ s[i + 1] # Quote /\ s[i + 2] = Quote
      THEN << <<s[i + 1]>> >> \o findall(s, i + 3)
      ELSE findall(s, i + 1)

\* matches if matches else [str(raw_type)]
bsp_type_values(raw_type) ==
    IF findall(raw_type, 1) # <<>> THEN findall(raw_type, 1) ELSE <<raw_type>>

\* x in list
In(x, list) == \E i \in 1..Len(list) : list[i] = x

\* any(t in bsp_types for t in bsp_type_values)
type_matched(values, types) == \E i \in 1..Len(values) : In(values[i], types)

\* FirstAccepted that walks the point's tags instead of the caller's list
RECURSIVE FirstAccepted_PointOrder(_, _)
FirstAccepted_PointOrder(types, values) ==
    IF values = <<>>
      THEN <<>>
      ELSE IF In(Head(values), types)
      THEN Head(values)
      ELSE FirstAccepted_PointOrder(types, Tail(values))

\* for t in bsp_types: if t in bsp_type_values: bsp.type = t; break
RECURSIVE FirstAccepted(_, _)
FirstAccepted(types, values) ==
    IF types = <<>>
      THEN <<>>
      ELSE IF In(Head(types), values)
      THEN Head(types)
      ELSE FirstAccepted(Tail(types), values)

\* the value bsp.type is given once a type matched
NewType(values, types) ==
    IF Len(values) > 1 THEN FirstAccepted(types, values) ELSE values[1]

\* the seconds from 2024/01/01 00:00:00 to second s of minute mi of hour h of
\* day d of January 2024
Seconds(d, h, mi, s) == (((d - 1) * 24 + h) * 60 + mi) * 60 + s

\* timedelta(days = n), in seconds
timedelta(n) == n * 86400

\* datetime.strptime(text, "%Y/%m/%d %H:%M") for a text of January 2024: the
\* datetime when the text has that form, ValueError otherwise
strptime(text) ==
    IF text.form = "%Y/%m/%d %H:%M"
      THEN [ok |-> TRUE, t |-> Seconds(text.d, text.h, text.mi, 0)]
      ELSE [ok |-> FALSE, t |-> 0]

\* bsp_time >= cutoff_time, with > instead
IsRecent_Strict(bsp_time, cutoff_time) == bsp_time > cutoff_time

\* bsp_time >= cutoff_time
IsRecent(bsp_time, cutoff_time) == bsp_time >= cutoff_time

\* FilterPoint where the ValueError of strptime is not caught
FilterPoint_ParseErrorEscapes(bsp, types, cutoff_time) ==
    LET values == bsp_type_values(bsp.type)
        parsed == strptime(bsp.time)
        drop == [raised |-> FALSE, keep |-> FALSE, bsp |-> bsp]
    IN  IF ~bsp.is_buy THEN drop
        ELSE IF ~type_matched(values, types) THEN drop
        ELSE IF ~parsed.ok THEN [raised |-> TRUE, keep |-> FALSE, bsp |-> bsp]
        ELSE [raised |-> FALSE,
              keep |-> IsRecent(parsed.t, cutoff_time),
              bsp |-> [bsp EXCEPT !.type = NewType(values, types)]]

\* one pass of the loop body on a point: whether an exception leaves the
\* loop (never: ValueError is caught by "continue", every other Exception by
\* the outer handler), whether the point is appended, and the point with the
\* type it was given
FilterPoint(bsp, types, cutoff_time) ==
    LET values == bsp_type_values(bsp.type)
        parsed == strptime(bsp.time)
        drop == [raised |-> FALSE, keep |-> FALSE, bsp |-> bsp]
    IN  IF ~bsp.is_buy THEN drop
        ELSE IF ~type_matched(values, types) THEN drop
        ELSE IF ~parsed.ok THEN drop
        ELSE [raised |-> FALSE,
              keep |-> IsRecent(parsed.t, cutoff_time),
              bsp |-> [bsp EXCEPT !.type = NewType(values, types)]]

\* for bsp in bs_points: ...; an exception that leaves the body ends the
\* call.  acc is recent_buy_points so far.
RECURSIVE FilterLoop(_, _, _, _)
FilterLoop(points, types, cutoff_time, acc) ==
    IF points = <<>>
      THEN [raised |-> FALSE, out |-> acc]
      ELSE LET r == FilterPoint(Head(points), types, cutoff_time)
           IN  IF r.raised
                 THEN [raised |-> TRUE, out |-> acc]
                 ELSE FilterLoop(Tail(points), types, cutoff_time,
                                 IF r.keep THEN Append(acc, r.bsp) ELSE acc)

\* filter_buy_points(bs_points, bsp_types, time_window_days), called at now
filter_buy_points(points, types, days) ==
    FilterLoop(points, types, now - timedelta(days), <<>>)

\* the call of scan_single_stock
CallFilter ==
    /\ ~recent.done
    /\ LET r == filter_buy_points(bs_points, bsp_types, time_window_days)
       IN  recent' = [done |-> TRUE, raised |-> r.raised, out |-> r.out]
    /\ UNCHANGED <<taskvars, drivervars, unitvars, cancelvars, readervars, deletevars,
                   storevars,
                   requestvars, observervars, clockvars,
                   bs_points, bsp_types, time_window_days, now, percent>>

\* str(bsp.type) of the engine for a list of type values: the quoted values
\* between the pieces "[<", ">, <" and ">]" ("[]" for no value)
RECURSIVE PackRest(_)
PackRest(tags) ==
    IF tags = <<>>
      THEN <<">]">>
      ELSE <<">, <", Quote, Head(tags), Quote>> \o PackRest(Tail(tags))
Pack(tags) ==
    IF tags = <<>>
      THEN <<"[]">>
      ELSE <<"[<", Quote, Head(tags), Quote>> \o PackRest(Tail(tags))

\* the type texts of the sample points: a bare value, one packed value, two
\* packed values, no value
RawTypes == {<<"2">>, Pack(<<"3a">>), Pack(<<"2", "3a">>), Pack(<<>>)}

\* the time texts of the sample points: minutes around midnight of days 1 to 3
\* in the form the filter parses, and a date without time (a daily bar)
TimeTexts ==
    {[form |-> "%Y/%m/%d %H:%M", d |-> 1, h |-> 0, mi |-> 1],
     [form |-> "%Y/%m/%d %H:%M", d |-> 2, h |-> 0, mi |-> 0],
     [form |-> "%Y/%m/%d %H:%M", d |-> 2, h |-> 0, mi |-> 1],
     [form |-> "%Y/%m/%d %H:%M", d |-> 3, h |-> 0, mi |-> 0],
     [form |-> "%Y/%m/%d %H:%M", d |-> 3, h |-> 0, mi |-> 1],
     [form |-> "%Y/%m/%d %H:%M", d |-> 3, h |-> 0, mi |-> 2],
     [form |-> "%Y/%m/%d", d |-> 3, h |-> 0, mi |-> 0]}

\* the sample points: every buy point over the two sets, and a sell point
PointInputs ==
    [is_buy : {TRUE}, type : RawTypes, time : TimeTexts]
    \cup {[is_buy |-> FALSE, type |-> Pack(<<"2", "3a">>), time |-> tt] :
            tt \in {tx \in TimeTexts : tx.d = 3 /\ tx.mi = 1}}

\* the accepted lists of the sample calls
TypeLists ==
    {<<>>, << <<"2">> >>, << <<"1">> >>, << <<"2">>, <<"3a">> >>, << <<"3a">>, <<"2">> >>}

\* the clock of the sample calls: one minute past midnight of day 3, on the
\* second and one second later
NowInputs == {Seconds(3, 0, 1, 0), Seconds(3, 0, 1, 1)}

\* filter_buy_points on every call of the bounded input space
InitFilter ==
    /\ NoTask
    /\ store_up = TRUE
    /\ catalog = <<>>
    /\ request = DefaultRequest
    /\ bs_points \in SeqUpTo(PointInputs, MaxBsp)
    /\ bsp_types \in TypeLists
    /\ time_window_days \in 0..MaxWindow
    /\ now \in NowInputs
    /\ recent = NotCalled
    /\ percent = NoPercent

\* the scans the orchestration is followed on: explicit lists of 1..MaxStocks
\* codes, and a request for the whole catalog while the stocks table is empty
Init ==
    /\ NoTask
    /\ store_up = TRUE
    /\ catalog = <<>>
    /\ request \in {CustomRequest(n) : n \in 1..MaxStocks} \cup {DefaultRequest}
    /\ NoFilterCall

\* the scans a progress stream is followed on: one identifier, and two, so
\* that a completion can fall between two polls of the stream
StreamRequests == {CustomRequest(1), CustomRequest(2)}

InitStream ==
    /\ NoTask
    /\ store_up = TRUE
    /\ catalog = <<>>
    /\ request \in StreamRequests
    /\ NoFilterCall

\* a request that names the same code twice in stock_codes
RepeatedRequest ==
    [stock_pool |-> "custom", boards |-> None,
     stock_codes |-> Some(<<CodeList[1], CodeList[1]>>)]

\* the scans the dispatch to the pool is followed on: two different codes, and
\* one code given twice
InitPool ==
    /\ NoTask
    /\ store_up = TRUE
    /\ catalog = <<>>
    /\ request \in {CustomRequest(2), RepeatedRequest}
    /\ NoFilterCall

\* the work items of tasks started earlier that wait in the queue of the pool
EarlierItems == [i \in 1..MaxEarlier |-> <<"T0", i>>]

\* a scan of one or two identifiers started while the units of earlier tasks
\* are queued in the shared pool
InitShared ==
    /\ NoRecord
    /\ workq = EarlierItems
    /\ earlier = 0
    /\ store_up = TRUE
    /\ catalog = <<>>
    /\ request \in StreamRequests
    /\ NoFilterCall

\* the scan delete_task is followed on: one or two identifiers
InitDelete ==
    /\ NoTask
    /\ store_up = TRUE
    /\ catalog = <<>>
    /\ request \in StreamRequests
    /\ NoFilterCall

\* the scan the reaper of the lookup is followed on: one identifier
InitReaper ==
    /\ NoTask
    /\ store_up = TRUE
    /\ catalog = <<>>
    /\ request = CustomRequest(1)
    /\ NoFilterCall

\* ------------------------------------------------------------- helpers
\* the units of task t (one per identifier of stocks)
UnitsOf(t) == 1..total_count[t]

\* the work items a pool thread is executing
InFlight == {tu \in TaskIds \X Units : ust[tu[1]][tu[2]] \in {"start", "setcur", "engine"}}

\* the units of t that went past "if task.cancelled: return None"
Passed(t) == {u \in UnitsOf(t) : \/ ust[t][u] \in {"setcur", "engine"}
                                 \/ ret[t][u].how \in {"ok", "failed"}}

\* the list scan_single_stock returned: k items when k >= 1 points survive the
\* filter, None (the empty sequence) when skipped, failed or nothing found
Items(u, k) == [i \in 1..k |-> <<u, i>>]
ResultOf(t, u) == IF ret[t][u].how = "ok" THEN Items(u, ret[t][u].n) ELSE <<>>

\* ------------------------------------------------------------ the store
\* INSERT INTO scan_tasks: status running, total_count, zeroed counters.  The
\* caller has checked that the store is up (the function re-raises otherwise).
create_task_in_db(t, n) ==
    [db_task EXCEPT ![t] = [st |-> "running", tc |-> n, pc |-> 0, fc |-> 0,
                            err |-> FALSE, done |-> FALSE]]

\* UPDATE scan_tasks SET status, processed_count, found_count, error_message
\* WHERE id = task_id, with processed_count p and found_count f; an exception
\* of the store is logged and swallowed
update_task_progress(t, p, f) ==
    IF store_up /\ db_task[t].st # "none"
      THEN [db_task EXCEPT ![t] = [@ EXCEPT !.st = status[t], !.pc = p, !.fc = f,
                                            !.err = error_message[t]]]
      ELSE db_task

\* the same UPDATE with current_stock = NULL and completed_at = NOW()
complete_task_in_db(t) ==
    IF store_up /\ db_task[t].st # "none"
      THEN [db_task EXCEPT ![t] = [@ EXCEPT !.st = status[t],
                                            !.pc = processed_count[t],
                                            !.fc = found_count[t],
                                            !.err = error_message[t],
                                            !.done = TRUE]]
      ELSE db_task

\* if not results: return; else INSERT INTO scan_results one row per item
\* (task_id references scan_tasks); an exception is logged and swallowed
save_results_to_db(t) ==
    IF results[t] # <<>> /\ store_up /\ db_task[t].st # "none"
      THEN [db_results EXCEPT ![t] = @ \o results[t]]
      ELSE db_results

\* get_results_from_db: None (NoSnap) when the store raises or has no row of
\* the task; else status, processed_count and found_count of the task row and
\* the result rows of the task
get_results_from_db(t) ==
    IF store_up /\ db_task[t].st # "none"
      THEN [st |-> db_task[t].st, pc |-> db_task[t].pc, fc |-> db_task[t].fc,
            n |-> Len(db_results[t])]
      ELSE NoSnap

\* the store stops accepting connections
StoreFail ==
    /\ store_up
    /\ store_up' = FALSE
    /\ UNCHANGED <<taskvars, drivervars, unitvars, cancelvars, readervars, deletevars,
                   filtervars,
        observervars, clockvars,
                   requestvars,
                   db_task, db_results, sres>>

\* the store accepts connections again
StoreRecover ==
    /\ ~store_up
    /\ store_up' = TRUE
    /\ UNCHANGED <<taskvars, drivervars, unitvars, cancelvars, readervars, deletevars,
                   filtervars,
        observervars, clockvars,
                   requestvars,
                   db_task, db_results, sres>>

\* ---------------------------------------------------------- start_scan
\* start_scan without "if not stocks: raise ValueError": a task is created for
\* an empty universe
start_scan_NoEmptyCheck(t) ==
    LET list == get_stock_list(request.stock_pool, request.boards, request.stock_codes)
    IN  /\ pc[t] = "none"
        /\ stocks' = [stocks EXCEPT ![t] = list]
        /\ IF ~store_up
             THEN /\ sres' = [sres EXCEPT ![t] = "failed"]
                  /\ UNCHANGED <<pc, db_task>>
             ELSE /\ db_task' = create_task_in_db(t, Len(list))
                  /\ pc' = [pc EXCEPT ![t] = "register"]
                  /\ UNCHANGED sres
        /\ UNCHANGED <<tasks, status, total_count, start_time, processed_count,
                       found_count, results, cancelled, current_stock,
                       error_message, lock, cur, counted, unitvars, cancelvars,
                       readervars, deletevars, filtervars, observervars, clock, reaper,
                       db_results, store_up, request, catalog>>

\* start_scan where create_task_in_db logs the exception of the store and
\* returns, as the other store functions do
start_scan_PersistFailureSwallowed(t) ==
    LET list == get_stock_list(request.stock_pool, request.boards, request.stock_codes)
    IN  /\ pc[t] = "none"
        /\ stocks' = [stocks EXCEPT ![t] = list]
        /\ IF list = <<>>
             THEN /\ sres' = [sres EXCEPT ![t] = "rejected"]
                  /\ UNCHANGED <<pc, db_task>>
             ELSE /\ db_task' = IF store_up THEN create_task_in_db(t, Len(list))
                                            ELSE db_task
                  /\ pc' = [pc EXCEPT ![t] = "register"]
                  /\ UNCHANGED sres
        /\ UNCHANGED <<tasks, status, total_count, start_time, processed_count,
                       found_count, results, cancelled, current_stock,
                       error_message, lock, cur, counted, unitvars, cancelvars,
                       readervars, deletevars, filtervars, observervars, clock, reaper,
                       db_results, store_up, request, catalog>>

\* start_scan(request), up to create_task_in_db: the universe is resolved; an
\* empty one is rejected with ValueError before anything is created.
\* Otherwise the task row is inserted and committed (an exception of the store
\* leaves start_scan).
start_scan(t) ==
    LET list == get_stock_list(request.stock_pool, request.boards, request.stock_codes)
    IN  /\ pc[t] = "none"
        /\ stocks' = [stocks EXCEPT ![t] = list]
        /\ IF list = <<>>
             THEN /\ sres' = [sres EXCEPT ![t] = "rejected"]
                  /\ UNCHANGED <<pc, db_task>>
             ELSE IF ~store_up
             THEN /\ sres' = [sres EXCEPT ![t] = "failed"]
                  /\ UNCHANGED <<pc, db_task>>
             ELSE /\ db_task' = create_task_in_db(t, Len(list))
                  /\ pc' = [pc EXCEPT ![t] = "register"]
                  /\ UNCHANGED sres
        /\ UNCHANGED <<tasks, status, total_count, start_time, processed_count,
                       found_count, results, cancelled, current_stock,
                       error_message, lock, cur, counted, unitvars, cancelvars,
                       readervars, deletevars, filtervars, observervars, clock, reaper,
                       db_results, store_up, request, catalog>>

\* start_scan_register where the driver thread is started without the record
\* being put into the lookup
start_scan_register_Unregistered(t) ==
    /\ pc[t] = "register"
    /\ status' = [status EXCEPT ![t] = "running"]
    /\ total_count' = [total_count EXCEPT ![t] = Len(stocks[t])]
    /\ start_time' = [start_time EXCEPT ![t] = clock]
    /\ pc' = [pc EXCEPT ![t] = "submit"]
    /\ sres' = [sres EXCEPT ![t] = "ok"]
    /\ UNCHANGED <<tasks, processed_count, found_count, results, cancelled,
                   current_stock, error_message, lock, cur, counted, unitvars,
                   cancelvars, readervars, deletevars, filtervars, observervars, clock,
                   reaper,
                   db_task, db_results, store_up, requestvars>>

\* start_scan after create_task_in_db: ScanTask(task_id, len(stocks)) is
\* created running with zeroed counters, registered under the service lock,
\* the driver thread is started and the id is returned
start_scan_register(t) ==
    /\ pc[t] = "register"
    /\ tasks' = tasks \cup {t}
    /\ status' = [status EXCEPT ![t] = "running"]
    /\ total_count' = [total_count EXCEPT ![t] = Len(stocks[t])]
    /\ start_time' = [start_time EXCEPT ![t] = clock]
    /\ pc' = [pc EXCEPT ![t] = "submit"]
    /\ sres' = [sres EXCEPT ![t] = "ok"]
    /\ UNCHANGED <<processed_count, found_count, results, cancelled, current_stock,
                   error_message, lock, cur, counted, unitvars, cancelvars,
                   readervars, deletevars, filtervars, observervars, clock, reaper,
                   db_task, db_results, store_up, requestvars>>

\* --------------------------------------------------------- _run_scan
\* one executor.submit of the dict comprehension: the next identifier, in order
Submit(t) ==
    /\ pc[t] = "submit"
    /\ \E u \in UnitsOf(t) :
        /\ ust[t][u] = "none"
        /\ \A v \in UnitsOf(t) : v < u => ust[t][v] # "none"
        /\ ust' = [ust EXCEPT ![t][u] = "queued"]
        /\ workq' = Append(workq, <<t, u>>)
        /\ pc' = [pc EXCEPT ![t] = IF u = total_count[t] THEN "wait" ELSE "submit"]
    /\ UNCHANGED <<taskvars, cur, counted, ret, slow, earlier, cancelvars,
                   readervars, deletevars, filtervars, observervars, clockvars,
                   requestvars, storevars>>

\* executor.submit raises (the pool cannot take the work): control leaves the
\* try block for the outer except handler
SubmitRaises(t) ==
    /\ pc[t] = "submit"
    /\ pc' = [pc EXCEPT ![t] = "except"]
    /\ UNCHANGED <<taskvars, cur, counted, unitvars, cancelvars,
                   readervars, deletevars, filtervars, observervars, clockvars,
                   requestvars, storevars>>

\* as_completed that can yield a finished future again
AsCompleted_Repeats(t) ==
    /\ pc[t] = "wait"
    /\ \/ \E u \in UnitsOf(t) :
            /\ ust[t][u] \in {"done", "taken"}
            /\ ust' = [ust EXCEPT ![t][u] = "taken"]
            /\ cur' = [cur EXCEPT ![t] = u]
            /\ pc' = [pc EXCEPT ![t] = "check"]
       \/ /\ \A u \in UnitsOf(t) : ust[t][u] = "taken"
          /\ pc' = [pc EXCEPT ![t] = "final"]
          /\ UNCHANGED <<ust, cur>>
    /\ UNCHANGED <<taskvars, counted, ret, slow, workq, earlier, cancelvars,
                   readervars, deletevars, filtervars, observervars, clockvars,
                   requestvars, storevars>>

\* as_completed yields a finished future that it has not yielded before, in
\* any order; it blocks while none is finished and ends when all were yielded
AsCompleted(t) ==
    /\ pc[t] = "wait"
    /\ \/ \E u \in UnitsOf(t) :
            /\ ust[t][u] = "done"
            /\ ust' = [ust EXCEPT ![t][u] = "taken"]
            /\ cur' = [cur EXCEPT ![t] = u]
            /\ pc' = [pc EXCEPT ![t] = "check"]
       \/ /\ \A u \in UnitsOf(t) : ust[t][u] = "taken"
          /\ pc' = [pc EXCEPT ![t] = "final"]
          /\ UNCHANGED <<ust, cur>>
    /\ UNCHANGED <<taskvars, counted, ret, slow, workq, earlier, cancelvars,
                   readervars, deletevars, filtervars, observervars, clockvars,
                   requestvars, storevars>>

\* DriverCheck without the break: the loop goes on after a cancel request
DriverCheck_NoBreak(t) ==
    /\ pc[t] = "check"
    /\ pc' = [pc EXCEPT ![t] = "inc"]
    /\ UNCHANGED <<taskvars, cur, counted, unitvars, cancelvars,
                   readervars, deletevars, filtervars, observervars, clockvars,
                   requestvars, storevars>>

\* DriverCheck that marks the task cancelled as soon as it sees the flag and
\* goes on handling the future
DriverCheck_StatusEarly(t) ==
    /\ pc[t] = "check"
    /\ pc' = [pc EXCEPT ![t] = "inc"]
    /\ status' = [status EXCEPT ![t] = IF cancelled[t] THEN "cancelled" ELSE @]
    /\ UNCHANGED <<tasks, total_count, processed_count, found_count, results, cancelled,
                   current_stock, error_message, lock, cur, counted, unitvars, cancelvars,
                   readervars, deletevars, filtervars, observervars, clockvars,
                   requestvars, storevars>>

\* if task.cancelled: break
DriverCheck(t) ==
    /\ pc[t] = "check"
    /\ pc' = [pc EXCEPT ![t] = IF cancelled[t] THEN "final" ELSE "inc"]
    /\ UNCHANGED <<taskvars, cur, counted, unitvars, cancelvars,
                   readervars, deletevars, filtervars, observervars, clockvars,
                   requestvars, storevars>>

\* if time.time() - last_db_update > DB_UPDATE_INTERVAL: update_task_progress;
\* whether the interval has elapsed depends on the clock
PeriodicFlush(t, p, f) ==
    \/ db_task' = update_task_progress(t, p, f)
    \/ UNCHANGED db_task

\* DriverInc where a step after the increment raises inside the inner try, so
\* that the inner except handler counts the unit a second time
DriverInc_DoubleCount(t) ==
    /\ pc[t] = "inc"
    /\ lock[t] = "free"
    /\ counted' = [counted EXCEPT ![t] = @ \cup {cur[t]}]
    /\ processed_count' = [processed_count EXCEPT ![t] = @ + 2]
    /\ pc' = [pc EXCEPT ![t] = "wait"]
    /\ UNCHANGED <<tasks, status, total_count, found_count, results, cancelled,
                   current_stock, error_message, lock, cur, unitvars, cancelvars,
                   readervars, deletevars, filtervars, observervars, clockvars,
                   requestvars, storevars>>

\* DriverInc where the failure of a unit is not caught in scan_single_stock and
\* not in the inner try either: it reaches the outer except handler
DriverInc_FailureEscalates(t) ==
    /\ pc[t] = "inc"
    /\ lock[t] = "free"
    /\ IF ret[t][cur[t]].how = "failed"
         THEN /\ pc' = [pc EXCEPT ![t] = "except"]
              /\ UNCHANGED <<processed_count, lock, counted>>
         ELSE /\ processed_count' = [processed_count EXCEPT ![t] = @ + 1]
              /\ counted' = [counted EXCEPT ![t] = @ \cup {cur[t]}]
              /\ IF ResultOf(t, cur[t]) # <<>>
                   THEN /\ lock' = [lock EXCEPT ![t] = "driver"]
                        /\ pc' = [pc EXCEPT ![t] = "extend"]
                   ELSE /\ pc' = [pc EXCEPT ![t] = "wait"]
                        /\ UNCHANGED lock
    /\ UNCHANGED <<tasks, status, total_count, found_count, results, cancelled,
                   current_stock, error_message, cur, unitvars, cancelvars,
                   readervars, deletevars, filtervars, observervars, clockvars,
                   requestvars, storevars>>

\* result = future.result(timeout) on the finished future, which returns at
\* once and never raises (scan_single_stock catches every Exception); with
\* task.lock: task.processed_count += 1; the lock is kept when there is a
\* result to add, otherwise the handling of the future ends with the
\* periodic flush.  _push_progress and update_task_progress catch their own
\* exceptions, so the inner except handler is never entered.
DriverInc(t) ==
    /\ pc[t] = "inc"
    /\ lock[t] = "free"
    /\ counted' = [counted EXCEPT ![t] = @ \cup {cur[t]}]
    /\ processed_count' = [processed_count EXCEPT ![t] = @ + 1]
    /\ IF ResultOf(t, cur[t]) # <<>>
         THEN /\ lock' = [lock EXCEPT ![t] = "driver"]
              /\ pc' = [pc EXCEPT ![t] = "extend"]
              /\ UNCHANGED db_task
         ELSE /\ pc' = [pc EXCEPT ![t] = "wait"]
              /\ PeriodicFlush(t, processed_count[t] + 1, found_count[t])
              /\ UNCHANGED lock
    /\ UNCHANGED <<tasks, status, total_count, found_count, results, cancelled,
                   current_stock, error_message,
                   cur, unitvars, cancelvars, readervars, deletevars,
                   filtervars, observervars, clockvars, requestvars,
                   db_results, store_up, sres>>

\* task.results.extend(result)
DriverExtend(t) ==
    /\ pc[t] = "extend"
    /\ results' = [results EXCEPT ![t] = @ \o ResultOf(t, cur[t])]
    /\ pc' = [pc EXCEPT ![t] = "found"]
    /\ UNCHANGED <<tasks, status, total_count, processed_count, found_count, cancelled,
                   current_stock, error_message, lock, cur, counted, unitvars, cancelvars,
                   readervars, deletevars, filtervars, observervars, clockvars,
                   requestvars, storevars>>

\* DriverFound where update_task_progress lets the exception of a store that
\* is down out: the inner except handler counts the unit a second time
DriverFound_FlushRaises(t) ==
    /\ pc[t] = "found"
    /\ found_count' = [found_count EXCEPT ![t] = @ + Len(ResultOf(t, cur[t]))]
    /\ processed_count' = [processed_count EXCEPT ![t] = IF store_up THEN @ ELSE @ + 1]
    /\ lock' = [lock EXCEPT ![t] = "free"]
    /\ pc' = [pc EXCEPT ![t] = "wait"]
    /\ PeriodicFlush(t, processed_count[t], found_count[t] + Len(ResultOf(t, cur[t])))
    /\ UNCHANGED <<tasks, status, total_count, results, cancelled,
                   current_stock, error_message,
                   cur, counted, unitvars, cancelvars, readervars, deletevars,
                   filtervars, observervars, clockvars, requestvars,
                   db_results, store_up, sres>>

\* task.found_count += len(result); the lock is released; periodic flush
DriverFound(t) ==
    /\ pc[t] = "found"
    /\ found_count' = [found_count EXCEPT ![t] = @ + Len(ResultOf(t, cur[t]))]
    /\ lock' = [lock EXCEPT ![t] = "free"]
    /\ pc' = [pc EXCEPT ![t] = "wait"]
    /\ PeriodicFlush(t, processed_count[t], found_count[t] + Len(ResultOf(t, cur[t])))
    /\ UNCHANGED <<tasks, status, total_count, processed_count, results, cancelled,
                   current_stock, error_message,
                   cur, counted, unitvars, cancelvars, readervars, deletevars,
                   filtervars, observervars, clockvars, requestvars,
                   db_results, store_up, sres>>

\* after the loop, with task.lock: the status becomes cancelled or completed
\* and current_stock None
DriverFinal(t) ==
    /\ pc[t] = "final"
    /\ lock[t] = "free"
    /\ status' = [status EXCEPT ![t] = IF cancelled[t] THEN "cancelled" ELSE "completed"]
    /\ current_stock' = [current_stock EXCEPT ![t] = 0]
    /\ pc' = [pc EXCEPT ![t] = "flush"]
    /\ UNCHANGED <<tasks, total_count, processed_count, found_count, results, cancelled,
                   error_message, lock, cur, counted, unitvars, cancelvars,
                   readervars, deletevars, filtervars, observervars, clockvars,
                   requestvars, storevars>>

\* DriverFlush where a flush lets its exception out: the outer except handler
\* runs after the status was set
DriverFlush_Raises(t) ==
    /\ pc[t] = "flush"
    /\ pc' = [pc EXCEPT ![t] = "except"]
    /\ UNCHANGED <<taskvars, cur, counted, unitvars, cancelvars,
                   readervars, deletevars, filtervars, observervars, clockvars,
                   requestvars, storevars>>

\* DriverFlush with the two flushes in the other order: the task row is written
\* while the result rows are not stored yet
DriverFlush_RowFirst(t) ==
    /\ pc[t] = "flush"
    /\ db_task' = complete_task_in_db(t)
    /\ pc' = [pc EXCEPT ![t] = "complete"]
    /\ UNCHANGED <<taskvars, cur, counted, unitvars, cancelvars, readervars, deletevars,
                   filtervars,
                   observervars, clockvars, requestvars, db_results, store_up, sres>>

\* save_results_to_db(task.task_id, task.results): it catches its own
\* exceptions and does not write the in-memory record
DriverFlush(t) ==
    /\ pc[t] = "flush"
    /\ db_results' = save_results_to_db(t)
    /\ pc' = [pc EXCEPT ![t] = "complete"]
    /\ UNCHANGED <<taskvars, cur, counted, unitvars, cancelvars, readervars, deletevars,
                   filtervars,
                   observervars, clockvars, requestvars, db_task, store_up, sres>>

\* DriverExcept that ends the thread without the final flush of the task row
DriverExcept_NoFlush(t) ==
    /\ pc[t] = "except"
    /\ lock[t] = "free"
    /\ status' = [status EXCEPT ![t] = "error"]
    /\ error_message' = [error_message EXCEPT ![t] = TRUE]
    /\ pc' = [pc EXCEPT ![t] = "done"]
    /\ UNCHANGED <<tasks, total_count, processed_count, found_count, results, cancelled,
                   current_stock, lock, cur, counted, unitvars, cancelvars,
                   readervars, deletevars, filtervars, observervars, clockvars,
                   requestvars, storevars>>

\* except Exception: with task.lock: status = "error", error_message = str(e);
\* complete_task_in_db comes next
DriverExcept(t) ==
    /\ pc[t] = "except"
    /\ lock[t] = "free"
    /\ status' = [status EXCEPT ![t] = "error"]
    /\ error_message' = [error_message EXCEPT ![t] = TRUE]
    /\ pc' = [pc EXCEPT ![t] = "complete"]
    /\ UNCHANGED <<tasks, total_count, processed_count, found_count, results, cancelled,
                   current_stock, lock, cur, counted, unitvars, cancelvars,
                   readervars, deletevars, filtervars, observervars, clockvars,
                   requestvars, storevars>>

\* complete_task_in_db(task) and _push_progress(task), the last statements of
\* the try block and of the except handler; the driver thread ends
DriverComplete(t) ==
    /\ pc[t] = "complete"
    /\ db_task' = complete_task_in_db(t)
    /\ pc' = [pc EXCEPT ![t] = "done"]
    /\ UNCHANGED <<taskvars, cur, counted, unitvars, cancelvars, readervars, deletevars,
                   filtervars,
                   observervars, clockvars, requestvars, db_results, store_up, sres>>

\* ------------------------------------------------- pool and the units
\* an idle pool thread takes the oldest work item
WorkerTake ==
    /\ workq # <<>>
    /\ Cardinality(InFlight) + earlier < MAX_WORKERS
    /\ LET t == Head(workq)[1]
           u == Head(workq)[2]
       IN IF t \in TaskIds
            THEN /\ ust' = [ust EXCEPT ![t][u] = "start"]
                 /\ UNCHANGED earlier
            ELSE /\ earlier' = earlier + 1
                 /\ UNCHANGED ust
    /\ workq' = Tail(workq)
    /\ UNCHANGED <<taskvars, drivervars, ret, slow, cancelvars,
                   readervars, deletevars, filtervars, observervars, clockvars,
                   requestvars, storevars>>

\* scan_single_stock of a task started earlier returns, and its pool thread is
\* idle again
EarlierReturn ==
    /\ earlier > 0
    /\ earlier' = earlier - 1
    /\ UNCHANGED <<taskvars, drivervars, ust, ret, slow, workq, cancelvars,
                   readervars, deletevars, filtervars, observervars, clockvars,
                   requestvars, storevars>>

\* UnitCheck without the test of the cancel flag
UnitCheck_IgnoresCancel(t, u) ==
    /\ ust[t][u] = "start"
    /\ ust' = [ust EXCEPT ![t][u] = "setcur"]
    /\ UNCHANGED <<taskvars, drivervars, ret, slow, workq, earlier, cancelvars,
                   readervars, deletevars, filtervars, observervars, clockvars,
                   requestvars, storevars>>

\* scan_single_stock: if task.cancelled: return None
UnitCheck(t, u) ==
    /\ ust[t][u] = "start"
    /\ IF cancelled[t]
         THEN /\ ust' = [ust EXCEPT ![t][u] = "done"]
              /\ ret' = [ret EXCEPT ![t][u] = [how |-> "skipped", n |-> 0]]
         ELSE /\ ust' = [ust EXCEPT ![t][u] = "setcur"]
              /\ UNCHANGED ret
    /\ UNCHANGED <<taskvars, drivervars, slow, workq, earlier, cancelvars,
                   readervars, deletevars, filtervars, observervars, clockvars,
                   requestvars, storevars>>

\* with task.lock: task.current_stock = code
UnitSetCurrent(t, u) ==
    /\ ust[t][u] = "setcur"
    /\ lock[t] = "free"
    /\ current_stock' = [current_stock EXCEPT ![t] = u]
    /\ ust' = [ust EXCEPT ![t][u] = "engine"]
    /\ UNCHANGED <<tasks, status, total_count, processed_count, found_count, results,
                   cancelled, error_message, lock, drivervars, ret, slow, workq, earlier,
                   cancelvars,
                   readervars, deletevars, filtervars, observervars, clockvars,
                   requestvars, storevars>>

\* the engine call goes on past SINGLE_STOCK_TIMEOUT; nothing interrupts it
EngineSlow(t, u) ==
    /\ ust[t][u] = "engine"
    /\ ~slow[t][u]
    /\ slow' = [slow EXCEPT ![t][u] = TRUE]
    /\ UNCHANGED <<taskvars, drivervars, ust, ret, workq, earlier, cancelvars,
                   readervars, deletevars, filtervars, observervars, clockvars,
                   requestvars, storevars>>

\* calculate_chan returns and filter_buy_points keeps k points: the unit
\* returns k items, or None when k = 0
EngineReturn(t, u, k) ==
    /\ ust[t][u] = "engine"
    /\ ust' = [ust EXCEPT ![t][u] = "done"]
    /\ ret' = [ret EXCEPT ![t][u] = [how |-> "ok", n |-> k]]
    /\ UNCHANGED <<taskvars, drivervars, slow, workq, earlier, cancelvars,
                   readervars, deletevars, filtervars, observervars, clockvars,
                   requestvars, storevars>>

\* calculate_chan or the filtering raises: except Exception: return None
EngineRaise(t, u) ==
    /\ ust[t][u] = "engine"
    /\ ust' = [ust EXCEPT ![t][u] = "done"]
    /\ ret' = [ret EXCEPT ![t][u] = [how |-> "failed", n |-> 0]]
    /\ UNCHANGED <<taskvars, drivervars, slow, workq, earlier, cancelvars,
                   readervars, deletevars, filtervars, observervars, clockvars,
                   requestvars, storevars>>

\* --------------------------------------------------------- cancel_scan
\* CancelCall without the status test: any known task is flagged
CancelCall_NoStatusCheck(t) ==
    /\ cpc[t] = "idle"
    /\ IF t \in tasks
         THEN /\ cpc' = [cpc EXCEPT ![t] = "set"]
              /\ cret' = [cret EXCEPT ![t] = "none"]
         ELSE /\ cret' = [cret EXCEPT ![t] = "false"]
              /\ UNCHANGED cpc
    /\ UNCHANGED started_at_cancel
    /\ UNCHANGED <<taskvars, drivervars, unitvars,
                   readervars, deletevars, filtervars, observervars, clockvars,
                   requestvars, storevars>>

\* task = self.get_task(task_id); if task and task.status == "running": ...
\* else return False.  The status is read without task.lock.
CancelCall(t) ==
    /\ cpc[t] = "idle"
    /\ IF t \in tasks /\ status[t] = "running"
         THEN /\ cpc' = [cpc EXCEPT ![t] = "set"]
              /\ cret' = [cret EXCEPT ![t] = "none"]
         ELSE /\ cret' = [cret EXCEPT ![t] = "false"]
              /\ UNCHANGED cpc
    /\ UNCHANGED started_at_cancel
    /\ UNCHANGED <<taskvars, drivervars, unitvars,
                   readervars, deletevars, filtervars, observervars, clockvars,
                   requestvars, storevars>>

\* CancelSet that flips the flag instead of setting it
CancelSet_Toggle(t) ==
    /\ cpc[t] = "set"
    /\ lock[t] = "free"
    /\ cancelled' = [cancelled EXCEPT ![t] = ~@]
    /\ cpc' = [cpc EXCEPT ![t] = "idle"]
    /\ cret' = [cret EXCEPT ![t] = "true"]
    /\ started_at_cancel' = [started_at_cancel EXCEPT
                                ![t] = IF cancelled[t] THEN @ ELSE Passed(t)]
    /\ UNCHANGED <<tasks, status, total_count, processed_count, found_count, results,
                   current_stock, error_message, lock, drivervars, unitvars,
                   readervars, deletevars, filtervars, observervars, clockvars,
                   requestvars, storevars>>

\* with task.lock: task.cancelled = True; return True
CancelSet(t) ==
    /\ cpc[t] = "set"
    /\ lock[t] = "free"
    /\ cancelled' = [cancelled EXCEPT ![t] = TRUE]
    /\ cpc' = [cpc EXCEPT ![t] = "idle"]
    /\ cret' = [cret EXCEPT ![t] = "true"]
    /\ started_at_cancel' = [started_at_cancel EXCEPT
                                ![t] = IF cancelled[t] THEN @ ELSE Passed(t)]
    /\ UNCHANGED <<tasks, status, total_count, processed_count, found_count, results,
                   current_stock, error_message, lock, drivervars, unitvars,
                   readervars, deletevars, filtervars, observervars, clockvars,
                   requestvars, storevars>>

\* --------------------------------------------------------- delete_task
\* delete_task(task_id), up to the test of the row: SELECT status FROM
\* scan_tasks; no row, or an exception of the store: return False
delete_task(t) ==
    /\ dpc[t] = "idle"
    /\ IF ~store_up \/ db_task[t].st = "none"
         THEN /\ dret' = [dret EXCEPT ![t] = "false"]
              /\ UNCHANGED dpc
         ELSE /\ dret' = [dret EXCEPT ![t] = "none"]
              /\ dpc' = [dpc EXCEPT ![t] = IF db_task[t].st = "running"
                                             THEN "cancel" ELSE "delete"]
    /\ UNCHANGED <<taskvars, drivervars, unitvars, cancelvars, readervars, storevars,
                   requestvars, filtervars, observervars, clockvars>>

\* if row[0] == "running": self.cancel_scan(task_id); the test of cancel_scan
delete_task_cancel(t) ==
    /\ dpc[t] = "cancel"
    /\ dpc' = [dpc EXCEPT ![t] = IF t \in tasks /\ status[t] = "running"
                                   THEN "set" ELSE "delete"]
    /\ UNCHANGED <<taskvars, drivervars, unitvars, cancelvars, readervars, dret,
                   storevars, requestvars, filtervars, observervars, clockvars>>

\* cancel_scan called by delete_task: with task.lock: task.cancelled = True
delete_task_cancel_set(t) ==
    /\ dpc[t] = "set"
    /\ lock[t] = "free"
    /\ cancelled' = [cancelled EXCEPT ![t] = TRUE]
    /\ started_at_cancel' = [started_at_cancel EXCEPT
                                ![t] = IF cancelled[t] THEN @ ELSE Passed(t)]
    /\ dpc' = [dpc EXCEPT ![t] = "delete"]
    /\ UNCHANGED <<tasks, status, total_count, processed_count, found_count, results,
                   current_stock, error_message, lock, drivervars, unitvars, cpc, cret,
                   readervars, dret, storevars, requestvars, filtervars, observervars,
                   clockvars>>

\* DELETE FROM scan_tasks WHERE id = task_id, which removes the result rows
\* of the task as well (ON DELETE CASCADE), and commit; an exception of the
\* store: return False
delete_task_rows(t) ==
    /\ dpc[t] = "delete"
    /\ IF store_up
         THEN /\ db_task' = [db_task EXCEPT ![t] = NoRow]
              /\ db_results' = [db_results EXCEPT ![t] = <<>>]
              /\ dpc' = [dpc EXCEPT ![t] = "remove"]
              /\ UNCHANGED dret
         ELSE /\ dret' = [dret EXCEPT ![t] = "false"]
              /\ dpc' = [dpc EXCEPT ![t] = "idle"]
              /\ UNCHANGED <<db_task, db_results>>
    /\ UNCHANGED <<taskvars, drivervars, unitvars, cancelvars, readervars, store_up, sres,
                   requestvars, filtervars, observervars, clockvars>>

\* with self.lock: if task_id in self.tasks: del self.tasks[task_id]; return True
delete_task_remove(t) ==
    /\ dpc[t] = "remove"
    /\ tasks' = tasks \ {t}
    /\ dret' = [dret EXCEPT ![t] = "true"]
    /\ dpc' = [dpc EXCEPT ![t] = "idle"]
    /\ UNCHANGED <<status, total_count, processed_count, found_count, results, cancelled,
                   current_stock, error_message, lock, drivervars, unitvars, cancelvars,
                   readervars, storevars, requestvars, filtervars, observervars,
                   clockvars>>

\* ---------------------------------------------------------- get_result
\* to_result evaluates status, processed_count and found_count, without
\* task.lock, and passes the results list by reference
GetResultRead(t) ==
    /\ rpc[t] = "idle"
    /\ t \in tasks
    /\ rpc' = [rpc EXCEPT ![t] = "copy"]
    /\ snap' = [snap EXCEPT ![t] = [st |-> status[t], pc |-> processed_count[t],
                                    fc |-> found_count[t], n |-> -1]]
    /\ UNCHANGED <<taskvars, drivervars, unitvars, cancelvars, deletevars, storevars,
                   requestvars, filtervars, observervars, clockvars>>

\* ScanResultResponse(...) then copies the items of the list as it is now
GetResultCopy(t) ==
    /\ rpc[t] = "copy"
    /\ rpc' = [rpc EXCEPT ![t] = "idle"]
    /\ snap' = [snap EXCEPT ![t].n = Len(results[t])]
    /\ UNCHANGED <<taskvars, drivervars, unitvars, cancelvars, deletevars, storevars,
                   requestvars, filtervars, observervars, clockvars>>

\* ------------------------------------------- progress stream (scan_api.py)
\* Python floats are IEEE 754 doubles.  A positive float is kept as its 53
\* mantissa bits in three limbs hi (17 bits, the top one set), mid and lo (18
\* bits each) and the power of two x its last bit is scaled by:
\* (hi * 2^36 + mid * 2^18 + lo) * 2^x.  No intermediate value leaves 31 bits
\* as long as the operands of the division stay below 2^12.
Limb == 262144
HalfLimb == 131072

RECURSIVE Pow2(_)
Pow2(k) == IF k = 0 THEN 1 ELSE 2 * Pow2(k - 1)

\* the number of doublings that bring r (0 < r) to at least half of n
RECURSIVE ShiftUp(_, _)
ShiftUp(r, n) == IF 2 * r >= n THEN 0 ELSE 1 + ShiftUp(2 * r, n)

\* the number of doublings that bring n above p
RECURSIVE ShiftDown(_, _)
ShiftDown(p, n) == IF p < n THEN 0 ELSE 1 + ShiftDown(p, 2 * n)

\* the limbs plus one unit in the last place, renormalised when the carry
\* leaves at the top
NextUp(f) ==
    LET lo == f.lo + 1
        mid == f.mid + lo \div Limb
        hi == f.hi + mid \div Limb
    IN  IF hi = HalfLimb
          THEN [hi |-> HalfLimb \div 2, mid |-> 0, lo |-> 0, x |-> f.x + 1]
          ELSE [hi |-> hi, mid |-> mid % Limb, lo |-> lo % Limb, x |-> f.x]

\* p / n of two positive ints (true division): the quotient is scaled into
\* [1/2, 1), its first 53 bits are produced by long division, and the result
\* is rounded to nearest, ties to even, on the next bit and the remainder
TrueDiv(p, n) ==
    LET k == ShiftDown(p, n)
        den == n * Pow2(k)
        z == ShiftUp(p, den)
        num == p * Pow2(z)
        hi == (num * HalfLimb) \div den
        r1 == (num * HalfLimb) % den
        mid == (r1 * Limb) \div den
        r2 == (r1 * Limb) % den
        lo == (r2 * Limb) \div den
        r3 == (r2 * Limb) % den
        guard == (2 * r3) \div den
        sticky == (2 * r3) % den # 0
        down == [hi |-> hi, mid |-> mid, lo |-> lo, x |-> k - z - 53]
    IN  IF guard = 1 /\ (sticky \/ lo % 2 = 1) THEN NextUp(down) ELSE down

\* int(f * 100) of a positive float f with f * 100 < 2^24: the exact product
\* of the mantissa and 100 has 59 or 60 bits; it is rounded to nearest, ties
\* to even, on the 6 or 7 bits below the 53 that a float keeps, and int()
\* drops what lies below the binary point
TruncTimes100(f) ==
    LET t3 == f.lo * 100
        t2 == f.mid * 100 + t3 \div Limb
        t1 == f.hi * 100 + t2 \div Limb
        p3 == t3 % Limb
        p2 == t2 % Limb
        drop == IF t1 >= Pow2(23) THEN 7 ELSE 6
        unit == Pow2(drop)
        below == p3 % unit
        up == \/ 2 * below > unit
              \/ 2 * below = unit /\ (p3 \div unit) % 2 = 1
        q3 == p3 - below + (IF up THEN unit ELSE 0)
        q2 == p2 + q3 \div Limb
        q1 == t1 + q2 \div Limb
    IN  q1 \div Pow2(-f.x - 36)

\* ScanTask.progress: 100 when total_count is 0, otherwise
\* int(processed_count / total_count * 100), in float arithmetic
progress(processed, total) ==
    IF total = 0 THEN 100
    ELSE IF processed = 0 THEN 0
    ELSE TruncTimes100(TrueDiv(processed, total))

\* the property is evaluated on a record with the two counters
CallProgress ==
    /\ ~percent.done
    /\ percent' = [percent EXCEPT !.done = TRUE,
                                  !.value = progress(percent.processed, percent.total)]
    /\ UNCHANGED <<taskvars, drivervars, unitvars, cancelvars, readervars, deletevars,
                   storevars,
                   requestvars, observervars, clockvars,
                   bs_points, bsp_types, time_window_days, now, recent>>

\* ScanTask.progress on every record with total_count up to MaxTotal and
\* processed_count up to total_count
InitProgress ==
    /\ NoTask
    /\ store_up = TRUE
    /\ catalog = <<>>
    /\ request = DefaultRequest
    /\ bs_points = <<>>
    /\ bsp_types = <<>>
    /\ time_window_days = 0
    /\ now = 0
    /\ recent = NotCalled
    /\ percent \in {[processed |-> p, total |-> n, done |-> FALSE, value |-> 0] :
                        n \in 0..MaxTotal, p \in 0..MaxTotal}
    /\ percent.processed <= percent.total

\* GET /progress/{task_id}: the task is looked up once; an id that is not in
\* the lookup is answered 404 and no stream exists
get_scan_progress(t) ==
    /\ opc[t] = "none"
    /\ t \in tasks
    /\ opc' = [opc EXCEPT ![t] = "poll"]
    /\ UNCHANGED <<taskvars, drivervars, unitvars, cancelvars, readervars, deletevars,
                   storevars,
                   requestvars, filtervars, osnap, stream, clockvars>>

\* get_progress at the top of the loop: get_task under the service lock; a
\* task that is no longer in the lookup ends the stream with no element.
\* Otherwise to_progress starts building the snapshot, without the lock of the
\* task: status is read first
get_progress(t) ==
    /\ opc[t] = "poll"
    /\ Len(stream[t]) < MaxEvents
    /\ IF t \in tasks
         THEN /\ osnap' = [osnap EXCEPT ![t] = [NoProgress EXCEPT !.st = status[t]]]
              /\ opc' = [opc EXCEPT ![t] = "percent"]
         ELSE /\ opc' = [opc EXCEPT ![t] = "closed"]
              /\ UNCHANGED osnap
    /\ UNCHANGED <<taskvars, drivervars, unitvars, cancelvars, readervars, deletevars,
                   storevars,
                   requestvars, filtervars, stream, clockvars>>

\* to_progress goes on: the progress property is evaluated
to_progress(t) ==
    /\ opc[t] = "percent"
    /\ osnap' = [osnap EXCEPT ![t].progress = progress(processed_count[t], total_count[t])]
    /\ opc' = [opc EXCEPT ![t] = "count"]
    /\ UNCHANGED <<taskvars, drivervars, unitvars, cancelvars, readervars, deletevars,
                   storevars,
                   requestvars, filtervars, stream, clockvars>>

\* event_generator where the loop goes on after a terminal snapshot
event_generator_NoBreak(t) ==
    /\ opc[t] = "count"
    /\ stream' = [stream EXCEPT
                  ![t] = Append(@, [osnap[t] EXCEPT !.pc = processed_count[t]])]
    /\ osnap' = [osnap EXCEPT ![t] = NoProgress]
    /\ opc' = [opc EXCEPT ![t] = "poll"]
    /\ UNCHANGED <<taskvars, drivervars, unitvars, cancelvars, readervars, deletevars,
                   storevars,
                   requestvars, filtervars, clockvars>>

\* to_progress ends with the read of processed_count, and event_generator
\* yields the snapshot; after a snapshot with a terminal status the loop is
\* left, otherwise it sleeps 0.5 s and polls again
event_generator(t) ==
    /\ opc[t] = "count"
    /\ stream' = [stream EXCEPT
                  ![t] = Append(@, [osnap[t] EXCEPT !.pc = processed_count[t]])]
    /\ osnap' = [osnap EXCEPT ![t] = NoProgress]
    /\ opc' = [opc EXCEPT ![t] = IF osnap[t].st \in Terminal THEN "closed" ELSE "poll"]
    /\ UNCHANGED <<taskvars, drivervars, unitvars, cancelvars, readervars, deletevars,
                   storevars,
                   requestvars, filtervars, clockvars>>

\* ------------------------------------------------------ cleanup_old_tasks
\* time.time() moves on
Tick ==
    /\ clock < MaxClock
    /\ clock' = clock + 1
    /\ UNCHANGED <<taskvars, drivervars, unitvars, cancelvars, readervars, deletevars,
                   storevars,
                   requestvars, filtervars, observervars, start_time, reaper>>

\* cleanup_old_tasks(max_age_seconds) is called: current_time = time.time() is
\* taken before the service lock is
cleanup_call(max_age_seconds) ==
    /\ reaper.pc = "idle"
    /\ reaper' = [pc |-> "sweep", current_time |-> clock,
                  max_age_seconds |-> max_age_seconds]
    /\ UNCHANGED <<taskvars, drivervars, unitvars, cancelvars, readervars, deletevars,
                   storevars,
                   requestvars, filtervars, observervars, clock, start_time>>

\* cleanup_old_tasks where a running task is kept
cleanup_old_tasks_KeepsRunning ==
    /\ reaper.pc = "sweep"
    /\ tasks' = {t \in tasks :
                   ~(/\ reaper.current_time - start_time[t] > reaper.max_age_seconds
                     /\ status[t] # "running")}
    /\ reaper' = [reaper EXCEPT !.pc = "idle"]
    /\ UNCHANGED <<status, total_count, processed_count, found_count, results, cancelled,
                   current_stock, error_message, lock, drivervars, unitvars, cancelvars,
                   readervars, deletevars, storevars, requestvars, filtervars, observervars,
                   clock, start_time>>

\* the body of cleanup_old_tasks, under the service lock: every entry of the
\* lookup whose start_time lies more than max_age_seconds before current_time
\* is deleted; the ScanTask objects and the store are not touched
cleanup_old_tasks ==
    /\ reaper.pc = "sweep"
    /\ tasks' = {t \in tasks :
                   ~(reaper.current_time - start_time[t] > reaper.max_age_seconds)}
    /\ reaper' = [reaper EXCEPT !.pc = "idle"]
    /\ UNCHANGED <<status, total_count, processed_count, found_count, results, cancelled,
                   current_stock, error_message, lock, drivervars, unitvars, cancelvars,
                   readervars, deletevars, storevars, requestvars, filtervars, observervars,
                   clock, start_time>>

\* ---------------------------------------------------------------- claims
\* the record of task t, as cancel_scan could change it
Record(t) == <<cancelled[t], status[t], total_count[t], processed_count[t],
               found_count[t], results[t], current_stock[t], error_message[t]>>

\* C1: in every reachable state, every task has processed_count <= total_count.
C1_ProcessedAtMostTotal ==
    \A t \in TaskIds : processed_count[t] <= total_count[t]

\* every unit of a two-unit scan has been counted
C1_Witness ==
    \E t \in TaskIds : total_count[t] >= 2 /\ processed_count[t] = total_count[t]

\* C3: a status that is completed, cancelled or error is never changed by any
\* step.
C3_TerminalIsAbsorbing ==
    [][\A t \in TaskIds : status[t] \in Terminal => status'[t] = status[t]]_vars

\* the driver has ended and each terminal status is seen with later activity:
\* a cancel flag set after completion
C3_Witness ==
    \E t \in TaskIds : status[t] = "completed" /\ pc[t] = "done" /\ cancelled[t]

\* C4: a cancel_scan call that finds the task unknown or not running returns
\* False in that step and leaves every task record as it was.
C4_RejectedCancelIsNoOp ==
    [][\A t \in TaskIds :
          (/\ cpc[t] = "idle"
           /\ <<cpc[t], cret[t]>>' # <<cpc[t], cret[t]>>
           /\ ~(t \in tasks /\ status[t] = "running"))
          => (/\ cret'[t] = "false"
              /\ cpc'[t] = "idle"
              /\ \A o \in TaskIds : Record(o)' = Record(o))]_vars

\* a cancel_scan call on a finished, never cancelled task has returned False
C4_Witness ==
    \E t \in TaskIds : cret[t] = "false" /\ status[t] \in Terminal /\ ~cancelled[t]

\* the number of items of unit u in a results sequence
ItemsIn(seq, u) == Cardinality({i \in 1..Len(seq) : seq[i][1] = u})

\* C2: every snapshot a get_result call builds has total_found equal to the
\* number of items in its results.
C2_SnapshotFoundEqualsResults ==
    \A t \in TaskIds :
        (rpc[t] = "idle" /\ snap[t].st # "none") => snap[t].fc = snap[t].n

\* C5: once a cancel_scan call on a task has returned True, the task does not
\* have status completed.
C5_AcceptedCancelNeverCompleted ==
    \A t \in TaskIds : cret[t] = "true" => status[t] # "completed"

\* C6: a task with a unit whose engine call has exceeded the per-unit timeout
\* still reaches a terminal status, whether or not that call ever returns.
C6_TimedOutUnitDoesNotHang ==
    \A t \in TaskIds : \A u \in Units :
        (ust[t][u] = "engine" /\ slow[t][u]) ~> (status[t] \in Terminal)

\* every unit of t ran the engine and failed
AllFailed(t) == \A u \in UnitsOf(t) : ret[t][u].how = "failed"

\* C7: the step in which the driver handles a failed unit adds one to
\* processed_count, leaves results, found_count and the status alone and does
\* not enter the error handler; the status error is never reached once the
\* driver has handled a unit; a never cancelled task all of whose units failed
\* ends completed.
C7_UnitFailureIsNotFatal ==
    /\ [][\A t \in TaskIds :
            (pc[t] = "inc" /\ pc'[t] # "inc" /\ ret[t][cur[t]].how = "failed")
            => (/\ processed_count'[t] = processed_count[t] + 1
                /\ results'[t] = results[t]
                /\ found_count'[t] = found_count[t]
                /\ status'[t] = status[t]
                /\ pc'[t] # "except")]_vars
    /\ [](\A t \in TaskIds : status[t] = "error" => cur[t] = 0)
    /\ [](\A t \in TaskIds :
            (pc[t] = "done" /\ AllFailed(t) /\ ~cancelled[t]) => status[t] = "completed")

\* a two-unit task whose units all failed has ended, completed, all counted
C7_Witness ==
    \E t \in TaskIds :
        /\ total_count[t] >= 2 /\ AllFailed(t) /\ pc[t] = "done"
        /\ status[t] = "completed" /\ processed_count[t] = total_count[t]
        /\ results[t] = <<>>

\* C8: a scan that was never cancelled and whose dispatch succeeded ends
\* completed with processed_count = total_count, and its results are exactly
\* the items of the units that succeeded within the timeout, found_count
\* being their number.
C8_FinalStateOfUncancelledScan ==
    \A t \in TaskIds :
        (pc[t] = "done" /\ ~cancelled[t] /\ ~error_message[t])
        => (/\ status[t] = "completed"
            /\ processed_count[t] = total_count[t]
            /\ found_count[t] = Len(results[t])
            /\ \A u \in UnitsOf(t) :
                  ItemsIn(results[t], u) =
                    IF ret[t][u].how = "ok" /\ ~slow[t][u] THEN ret[t][u].n ELSE 0)

\* C9: in a task with status cancelled, every unit that had passed its cancel
\* check when the flag was set has been yielded to the driver and counted, and
\* its items are in results.
C9_CancelledOnlyAfterDrain ==
    \A t \in TaskIds :
        status[t] = "cancelled"
        => (/\ \A u \in started_at_cancel[t] :
                  /\ ust[t][u] = "taken"
                  /\ ItemsIn(results[t], u) = Len(ResultOf(t, u))
            /\ processed_count[t] >= Cardinality(started_at_cancel[t]))

\* C10: a cancelled task has processed_count at most the number of units that
\* had passed their cancel check when the flag was set, and processed_count =
\* total_count only if all of its units had.
C10_CancelledCountBound ==
    \A t \in TaskIds :
        status[t] = "cancelled"
        => (/\ processed_count[t] <= Cardinality(started_at_cancel[t])
            /\ (processed_count[t] = total_count[t]
                   => started_at_cancel[t] = UnitsOf(t)))

\* a cancelled task that counted a unit and skipped another
C10_Witness ==
    \E t \in TaskIds :
        /\ status[t] = "cancelled" /\ processed_count[t] >= 1
        /\ \E u \in UnitsOf(t) : ret[t][u].how = "skipped"

\* C11: no step taken while the status is terminal changes processed_count,
\* found_count or results, whatever the units still in flight do.
C11_CountersFrozenOnceTerminal ==
    [][\A t \in TaskIds :
          status[t] \in Terminal
          => (/\ processed_count'[t] = processed_count[t]
              /\ found_count'[t] = found_count[t]
              /\ results'[t] = results[t])]_vars

\* the driver has ended a cancelled task, and a unit that was not counted has
\* finished with items that are not in results
C11_Witness ==
    \E t \in TaskIds :
        /\ status[t] = "cancelled" /\ pc[t] = "done"
        /\ processed_count[t] < total_count[t]
        /\ \E u \in UnitsOf(t) :
              /\ ust[t][u] = "done" /\ ret[t][u].how = "ok" /\ ret[t][u].n >= 1
              /\ ItemsIn(results[t], u) = 0

\* C12: when the scheduling loop raises, the step that leaves the except
\* handler's critical section has set status error and error_message and goes
\* on to complete_task_in_db; that call then writes the record as it is
\* (status error, the message, the counters, completed_at) to the task row
\* whenever the store is up, and the thread ends.
C12_LoopFailureEndsInErrorAndFlushes ==
    [][\A t \in TaskIds :
          /\ (pc[t] = "except" /\ pc'[t] # "except")
             => (status'[t] = "error" /\ error_message'[t] /\ pc'[t] = "complete")
          /\ (pc[t] = "complete" /\ pc'[t] # "complete" /\ status[t] = "error")
             => (/\ pc'[t] = "done"
                 /\ status'[t] = "error" /\ error_message'[t]
                 /\ store_up /\ db_task[t].st # "none"
                    => db_task'[t] = [st |-> "error", tc |-> total_count[t],
                                      pc |-> processed_count[t],
                                      fc |-> found_count[t],
                                      err |-> TRUE, done |-> TRUE])]_vars

\* dispatch failed after a first unit was handed to the pool; the task ended in
\* error and its row says so
C12_Witness ==
    \E t \in TaskIds :
        /\ pc[t] = "done" /\ status[t] = "error" /\ error_message[t]
        /\ \E u \in UnitsOf(t) : ust[t][u] # "none"
        /\ db_task[t].st = "error" /\ db_task[t].err /\ db_task[t].done

\* C14: a start_scan call whose resolver yields zero identifiers (an empty
\* catalog, no match, or the catalog unavailable) ends with the rejection and
\* leaves everything as it was: no record in the lookup, no task row, no unit
\* submitted or queued, no driver thread.
C14_EmptyUniverseCreatesNothing ==
    \A t \in TaskIds :
        (sres[t] # "none" /\ stocks[t] = <<>>)
        => /\ sres[t] = "rejected"
           /\ t \notin tasks /\ status[t] = "none" /\ total_count[t] = 0
           /\ db_task[t] = NoRow /\ db_results[t] = <<>>
           /\ pc[t] = "none" /\ workq = <<>>
           /\ \A u \in Units : ust[t][u] = "none"

\* the whole catalog was asked for while the store was down, and the call was
\* rejected
C14_Witness ==
    \E t \in TaskIds :
        /\ ~store_up /\ request.stock_pool = "all" /\ catalog # <<>>
        /\ sres[t] = "rejected" /\ stocks[t] = <<>>

\* C15: for the custom pool, start_scan works on the caller's stock_codes list
\* as given, whatever the list, the empty list included.
C15_CustomListVerbatim ==
    \A t \in TaskIds :
        (sres[t] # "none" /\ request.stock_pool = "custom" /\ request.stock_codes.some)
        => stocks[t] = request.stock_codes.val

\* a sequence in which no element occurs twice
NoDuplicates(seq) ==
    \A i, j \in 1..Len(seq) : seq[i] = seq[j] => i = j

\* C16: whatever the pool and the input, the list the resolver returns holds
\* no identifier twice.
C16_ResolvedListHasNoDuplicates ==
    \A t \in TaskIds : sres[t] # "none" => NoDuplicates(stocks[t])

\* the code satisfies the predicate of at least one requested category
InSomeBoard(boards, code) ==
    \E i \in 1..Len(boards) :
        boards[i] \in BoardNames /\ BOARD_PATTERNS(boards[i], code)

\* C17: for the boards pool with a non-empty boards list, the resolved list is
\* the catalog restricted to the codes that satisfy the predicate of at least
\* one requested category: same order, each code once (nothing when the
\* catalog cannot be read).
C17_BoardsSelectFromCatalog ==
    \A t \in TaskIds :
        (sres[t] # "none" /\ request.stock_pool = "boards" /\ Truthy(request.boards))
        => /\ stocks[t] = SelectSeq(IF store_up THEN catalog ELSE <<>>,
                                    LAMBDA c : InSomeBoard(request.boards.val, c))
           /\ NoDuplicates(stocks[t])

\* the same category was requested twice and two codes of the catalog are in
\* it or in none: one is kept, once, and the other is left out
C17_Witness ==
    \E t \in TaskIds :
        /\ request.stock_pool = "boards"
        /\ request.boards = Some(<<"kcb", "kcb">>)
        /\ Len(catalog) = 2
        /\ sres[t] = "ok" /\ Len(stocks[t]) = 1

\* the points of the call that the contract keeps: buy points with a type
\* value in the accepted list, whose time parses and is not before
\* now - window
Wanted(bsp) ==
    /\ bsp.is_buy
    /\ \E i \in 1..Len(bsp_types) : In(bsp_types[i], bsp_type_values(bsp.type))
    /\ bsp.time.form = "%Y/%m/%d %H:%M"
    /\ Seconds(bsp.time.d, bsp.time.h, bsp.time.mi, 0) >= now - 86400 * time_window_days

\* C18: a call of filter_buy_points does not raise and returns the wanted
\* points of bs_points, all of them, once each and in input order (each with
\* one of its own type values as type).
C18_FilterKeepsExactlyTheWanted ==
    recent.done
    => /\ ~recent.raised
       /\ LET want == SelectSeq(bs_points, Wanted)
          IN  /\ Len(recent.out) = Len(want)
              /\ \A i \in 1..Len(want) :
                    /\ recent.out[i].is_buy = want[i].is_buy
                    /\ recent.out[i].time = want[i].time
                    /\ In(recent.out[i].type, bsp_type_values(want[i].type))

\* a point whose time does not parse stood before a wanted point: the first
\* was dropped and the second returned
C18_Witness ==
    /\ recent.done /\ Len(bs_points) = 2
    /\ bs_points[1].is_buy /\ bs_points[1].time.form = "%Y/%m/%d"
    /\ type_matched(bsp_type_values(bs_points[1].type), bsp_types)
    /\ Len(recent.out) = 1 /\ recent.out[1].time = bs_points[2].time

\* the returned points, with the input point each one comes from
\* (the wanted points, in order)
Kept == SelectSeq(bs_points, Wanted)

\* C19: the returned points are the kept input points, one for one (so a
\* point none of whose values is accepted is not among them), and each
\* carries one type, a member of the accepted list and one of the point's
\* values; for a point with several packed values it is the first entry of
\* the accepted list, in the caller's order, that is among the point's values.
C19_CanonicalTagIsFirstAccepted ==
    recent.done
    => /\ Len(recent.out) = Len(Kept)
       /\ \A i \in 1..Len(recent.out) :
             LET values == bsp_type_values(Kept[i].type)
                 tag == recent.out[i].type
             IN  /\ recent.out[i].time = Kept[i].time
                 /\ In(tag, bsp_types)
                 /\ In(tag, values)
                 /\ Len(values) > 1
                    => \E k \in 1..Len(bsp_types) :
                          /\ bsp_types[k] = tag
                          /\ \A j \in 1..(k - 1) : ~In(bsp_types[j], values)

\* a point packed with '2' and '3a' was returned as 3a to a caller who
\* accepts 3a before 2
C19_Witness ==
    /\ recent.done
    /\ bsp_types = << <<"3a">>, <<"2">> >>
    /\ Len(bs_points) >= 1 /\ bs_points[1].type = Pack(<<"2", "3a">>)
    /\ Len(recent.out) >= 1 /\ recent.out[1].type = <<"3a">>
    /\ recent.out[1].time = bs_points[1].time

\* C20: the lower edge of the window is inclusive.  A wanted-type buy point
\* whose time is exactly now - time_window_days is returned; one whose time
\* is one second before now - time_window_days is not.
C20_LowerEdgeInclusive ==
    recent.done
    => \A i \in 1..Len(bs_points) :
          LET bsp == bs_points[i]
              t == Seconds(bsp.time.d, bsp.time.h, bsp.time.mi, 0)
              edge == now - 86400 * time_window_days
              returned == Len(SelectSeq(recent.out, LAMBDA o : o.time = bsp.time))
              same == Len(SelectSeq(bs_points,
                                    LAMBDA p : /\ p.time = bsp.time /\ p.is_buy
                                               /\ type_matched(bsp_type_values(p.type),
                                                               bsp_types)))
          IN  (/\ bsp.is_buy /\ bsp.time.form = "%Y/%m/%d %H:%M"
               /\ type_matched(bsp_type_values(bsp.type), bsp_types))
              => /\ t = edge => returned = same
                 /\ t = edge - 1 => returned = 0

\* one call returned a point dated exactly one day before now and dropped a
\* point of the same type dated a minute earlier (the point one second
\* before the edge is met when now is one second past the minute)
C20_Witness ==
    /\ recent.done /\ time_window_days = 1 /\ now = Seconds(3, 0, 1, 0)
    /\ Len(bs_points) = 2
    /\ bs_points[1].time = [form |-> "%Y/%m/%d %H:%M", d |-> 2, h |-> 0, mi |-> 0]
    /\ bs_points[2].time = [form |-> "%Y/%m/%d %H:%M", d |-> 2, h |-> 0, mi |-> 1]
    /\ bs_points[1].type = bs_points[2].type
    /\ Len(recent.out) = 1 /\ recent.out[1].time = bs_points[2].time

\* C21: with a window of 0 days a call returns the matching buy points dated
\* on the day of now or later, those from earlier on that day included, and
\* none dated on a day before.
C21_WindowZeroKeepsSameDay ==
    (recent.done /\ time_window_days = 0)
    => \A i \in 1..Len(bs_points) :
          LET bsp == bs_points[i]
              today == (now \div 86400) + 1
              returned == Len(SelectSeq(recent.out, LAMBDA o : o.time = bsp.time))
              same == Len(SelectSeq(bs_points,
                                    LAMBDA p : /\ p.time = bsp.time /\ p.is_buy
                                               /\ type_matched(bsp_type_values(p.type),
                                                               bsp_types)))
          IN  (/\ bsp.is_buy /\ bsp.time.form = "%Y/%m/%d %H:%M"
               /\ type_matched(bsp_type_values(bsp.type), bsp_types))
              => /\ bsp.time.d >= today => returned = same
                 /\ bsp.time.d < today => returned = 0

\* C22: in every state the stream of an observer holds at most one snapshot
\* with a terminal status; that snapshot is its last element, and the stream is
\* closed from then on, so that no element ever follows it.
C22_TerminalSnapshotIsLast ==
    \A t \in TaskIds : \A i \in 1..Len(stream[t]) :
        stream[t][i].st \in Terminal => /\ i = Len(stream[t])
                                        /\ opc[t] = "closed"

\* a stream that showed the task running and then ended on its terminal status
C22_Witness ==
    \E t \in TaskIds :
        /\ Len(stream[t]) >= 2
        /\ stream[t][1].st = "running"
        /\ stream[t][Len(stream[t])].st \in Terminal
        /\ opc[t] = "closed"

\* C23: every unit completion recorded while an observer is connected produces
\* a snapshot for that observer: a stream that began before the first completion
\* (its first snapshot shows processed_count = 0) and ended on the terminal
\* snapshot holds, for every completion k up to the count of that last
\* snapshot, a snapshot taken when processed_count was k.
C23_SnapshotPerCompletion ==
    \A t \in TaskIds :
        (/\ opc[t] = "closed"
         /\ stream[t] # <<>>
         /\ stream[t][1].pc = 0
         /\ stream[t][Len(stream[t])].st \in Terminal)
        => \A k \in 1..stream[t][Len(stream[t])].pc :
              \E i \in 1..Len(stream[t]) : stream[t][i].pc = k

\* C24: the sweep of cleanup_old_tasks removes from the lookup exactly the
\* tasks whose age since start_time exceeds the horizon of the call, whatever
\* their status, and changes neither a task record nor a row of the store.
C24_ReaperRemovesExactlyTheOld ==
    [][(reaper.pc = "sweep" /\ reaper'.pc = "idle")
       => /\ \A t \in TaskIds :
                t \in tasks' <=>
                    /\ t \in tasks
                    /\ reaper.current_time - start_time[t] <= reaper.max_age_seconds
          /\ \A t \in TaskIds : Record(t)' = Record(t)
          /\ db_task' = db_task
          /\ db_results' = db_results]_vars

\* a task that is still running and has left the lookup, with its row kept
C24_Witness ==
    \E t \in TaskIds :
        /\ status[t] = "running"
        /\ t \notin tasks
        /\ db_task[t] # NoRow

\* C25: a step of the driver that contains a flush (the periodic flush after a
\* unit was counted or its results added, the result flush, the final flush of
\* the task row) has the same effect on the in-memory record and on the
\* driver whether the store is up or down: it never enters the except
\* handler, never changes status or error_message, changes the counters by
\* exactly what the unit contributed, and the two final flushes leave the
\* record as it is and go on to the next statement.
C25_StoreFailureLeavesMemoryAlone ==
    [][\A t \in TaskIds :
          (pc'[t] # pc[t] /\ pc[t] \in {"inc", "found", "flush", "complete"})
          => /\ pc'[t] # "except"
             /\ <<cancelled[t], status[t], total_count[t], results[t],
                  current_stock[t], error_message[t]>>'
                  = <<cancelled[t], status[t], total_count[t], results[t],
                      current_stock[t], error_message[t]>>
             /\ pc[t] = "inc" => /\ processed_count'[t] = processed_count[t] + 1
                                 /\ found_count'[t] = found_count[t]
                                 /\ pc'[t] \in {"wait", "extend"}
             /\ pc[t] = "found" => /\ processed_count'[t] = processed_count[t]
                                   /\ found_count'[t] = found_count[t]
                                                          + Len(ResultOf(t, cur[t]))
                                   /\ pc'[t] = "wait"
             /\ pc[t] = "flush" => (Record(t)' = Record(t) /\ pc'[t] = "complete")
             /\ pc[t] = "complete" => (Record(t)' = Record(t) /\ pc'[t] = "done")]_vars

\* a scan that found results and completed with every unit counted while the
\* store was down for its flushes: no result row was written and the task row
\* still says running
C25_Witness ==
    \E t \in TaskIds :
        /\ pc[t] = "done" /\ status[t] = "completed"
        /\ processed_count[t] = total_count[t]
        /\ results[t] # <<>> /\ found_count[t] = Len(results[t])
        /\ db_results[t] = <<>>
        /\ db_task[t].st = "running"

\* C26: a task has status completed only if every unit has been accounted for
\* (processed_count = total_count) and no cancellation was requested for it:
\* its cancel flag is not set and no cancel_scan call on it has returned True.
C26_CompletedOnlyIfAllCountedAndNoCancel ==
    \A t \in TaskIds :
        status[t] = "completed"
        => /\ processed_count[t] = total_count[t]
           /\ ~cancelled[t]
           /\ cret[t] # "true"

\* the part of C26 that the race of cancel_scan leaves alone: a completed task
\* has counted every unit
C26_CompletedHasCountedAll ==
    \A t \in TaskIds : status[t] = "completed" => processed_count[t] = total_count[t]

\* C27: a unit that evaluates its cancel check while the cancel flag is set
\* returns at once without entering the analysis engine, and a unit that was
\* skipped in this way is never counted in processed_count and has no item in
\* results.
C27_SkippedUnitIsNotCounted ==
    [][\A t \in TaskIds : \A u \in Units :
          /\ (ust[t][u] = "start" /\ ust'[t][u] # "start" /\ cancelled[t])
             => (ust'[t][u] = "done" /\ ret'[t][u].how = "skipped")
          /\ ret'[t][u].how = "skipped"
             => /\ u \notin counted'[t]
                /\ ItemsIn(results'[t], u) = 0
                /\ processed_count'[t] <= total_count'[t] - 1]_vars

\* a scan of two identifiers ended cancelled with one unit counted and the
\* other skipped
C27_Witness ==
    \E t \in TaskIds : \E u \in UnitsOf(t) :
        /\ ret[t][u].how = "skipped"
        /\ pc[t] = "done" /\ status[t] = "cancelled"
        /\ counted[t] # {} /\ processed_count[t] = 1

\* C28: no step clears a cancel flag that is set, and cancel_scan is
\* idempotent: a step of a cancel_scan call changes nothing of the task record
\* but the flag, and on a task whose flag is already set it changes nothing of
\* the record at all, so that any number of calls leaves the record as one
\* call does.
C28_CancelFlagSticksAndIsIdempotent ==
    [][\A t \in TaskIds :
          /\ cancelled[t] => cancelled'[t]
          /\ <<cpc[t], cret[t]>>' # <<cpc[t], cret[t]>>
             => /\ <<status[t], total_count[t], processed_count[t], found_count[t],
                     results[t], current_stock[t], error_message[t]>>'
                     = <<status[t], total_count[t], processed_count[t], found_count[t],
                         results[t], current_stock[t], error_message[t]>>
                /\ cancelled[t] => Record(t)' = Record(t)]_vars

\* a second cancel_scan call has passed the status test on a task whose flag
\* the first call had set
C28_Witness ==
    \E t \in TaskIds : cpc[t] = "set" /\ cancelled[t] /\ status[t] = "running"

\* C29: in every state processed_count is the number of distinct units whose
\* completion the driver has handled: each of them is a unit as_completed has
\* yielded, none is counted twice and no increment is lost, whatever the
\* workers, cancel_scan and the readers of the progress stream do in between.
C29_EachCompletionCountedOnce ==
    \A t \in TaskIds :
        /\ processed_count[t] = Cardinality(counted[t])
        /\ counted[t] \subseteq {u \in UnitsOf(t) : ust[t][u] = "taken"}
        /\ pc[t] \in {"extend", "found"} => cur[t] \in counted[t]

\* both units of a scan were counted, the second one first, while to_progress
\* was between its reads of the record
C29_Witness ==
    \E t \in TaskIds :
        /\ counted[t] = {1, 2}
        /\ results[t] # <<>> /\ results[t][1][1] = 2
        /\ opc[t] = "count"

\* C30: at every instant at most MAX_WORKERS units, over all tasks, are
\* executing scan_single_stock, and each identifier of a task is dispatched as
\* exactly one unit: no two units submitted for a task carry the same
\* identifier, and once the dispatch is through every identifier has its unit.
C30_CeilingAndOneUnitPerIdentifier ==
    /\ Cardinality(InFlight) <= MAX_WORKERS
    /\ \A t \in TaskIds :
          /\ \A u, v \in UnitsOf(t) :
                (/\ ust[t][u] # "none" /\ ust[t][v] # "none"
                 /\ stocks[t][u] = stocks[t][v]) => u = v
          /\ pc[t] \in {"wait", "check", "inc", "extend", "found"}
             => \A u \in UnitsOf(t) : ust[t][u] # "none"

\* the part of C30 that does not depend on the identifiers being distinct: the
\* ceiling of the pool, and one unit per entry of the resolved list
C30_CeilingAndOneUnitPerEntry ==
    /\ Cardinality(InFlight) <= MAX_WORKERS
    /\ \A t \in TaskIds :
          pc[t] \in {"wait", "check", "inc", "extend", "found"}
          => \A u \in UnitsOf(t) : ust[t][u] # "none"

\* C31: the step of start_scan that creates the record leaves it running with
\* processed_count = 0, found_count = 0, no results and total_count equal to
\* the size of the resolved universe, in the lookup, with its task row
\* already in the store, and no unit of the task submitted yet; a unit exists
\* only for a record that was created, and total_count of a created record
\* never changes.
C31_CreationBeforeAnyUnit ==
    [][\A t \in TaskIds :
          /\ (status[t] = "none" /\ status'[t] # "none")
             => /\ status'[t] = "running"
                /\ processed_count'[t] = 0 /\ found_count'[t] = 0
                /\ results'[t] = <<>>
                /\ total_count'[t] = Len(get_stock_list(request.stock_pool,
                                                        request.boards,
                                                        request.stock_codes))
                /\ t \in tasks'
                /\ db_task[t].st = "running" /\ db_task[t].tc = total_count'[t]
                /\ \A u \in Units : ust'[t][u] = "none"
                /\ \A i \in 1..Len(workq') : workq'[i][1] # t
          /\ (\E u \in Units : ust'[t][u] # "none") => status'[t] # "none"
          /\ status[t] # "none" => total_count'[t] = total_count[t]]_vars

\* a scan of two identifiers is finished: both units ran, and total_count is
\* still the size of the universe
C31_Witness ==
    \E t \in TaskIds :
        /\ pc[t] = "done" /\ status[t] = "completed"
        /\ total_count[t] = 2 /\ Len(stocks[t]) = 2
        /\ \A u \in UnitsOf(t) : ust[t][u] = "taken"

\* C32: the percentage of a progress snapshot is an integer in 0..100, equal
\* to floor(100 * processed_count / total_count), and 100 when total_count is 0.
C32_PercentageIsFloor ==
    percent.done
    => /\ percent.value \in 0..100
       /\ percent.total = 0 => percent.value = 100
       /\ percent.total > 0
          => percent.value = (100 * percent.processed) \div percent.total

\* the part of C32 that float arithmetic leaves alone: the percentage is in
\* 0..100, is 100 when total_count is 0, and is never more than one below the
\* floor
C32_PercentageWithinOne ==
    percent.done
    => /\ percent.value \in 0..100
       /\ percent.total = 0 => percent.value = 100
       /\ percent.total > 0
          => LET floor == (100 * percent.processed) \div percent.total
             IN  percent.value \in {floor - 1, floor}

\* C33: under fair scheduling of the driver and the pool threads, a task whose
\* engine calls all return reaches a terminal status, also when the units of
\* tasks started earlier are ahead of its own in the shared pool.
C33_TaskWithReturningCallsTerminates ==
    \A t \in TaskIds : (status[t] = "running") ~> (status[t] \in Terminal)

\* C34: no step taken while the status is terminal changes a field of the
\* in-memory record of the task.
C34_RecordFrozenOnceTerminal ==
    [][\A t \in TaskIds : status[t] \in Terminal => Record(t)' = Record(t)]_vars

\* C34, the marker alone: once the transition after the loop has made the
\* status cancelled or completed and current_stock None, current_stock stays
\* None, also when a unit that passed its cancel check before the transition
\* goes on afterwards.
C34_MarkerStaysNone ==
    [][\A t \in TaskIds :
          (status[t] \in {"cancelled", "completed"} /\ current_stock[t] = 0)
          => current_stock'[t] = 0]_vars

\* C35: with a store that accepts every flush, whenever the task row shows
\* completed or cancelled the result rows of the task are exactly the results
\* of the in-memory record: they were stored before the row became terminal.
C35_ResultRowsBeforeTerminalRow ==
    \A t \in TaskIds :
        db_task[t].st \in {"completed", "cancelled"} => db_results[t] = results[t]

\* the row of a cancelled task is terminal, and result rows were stored
C35_Witness ==
    \E t \in TaskIds :
        /\ db_task[t].st = "cancelled" /\ db_task[t].done
        /\ db_results[t] # <<>>
        /\ processed_count[t] < total_count[t]

\* C36: in the store, found_count of the row of a task is always the number of
\* result rows stored for the task.
C36_RowFoundCountIsNumberOfRows ==
    \A t \in TaskIds :
        db_task[t].st # "none" => db_task[t].fc = Len(db_results[t])

\* C36, the snapshot: for a task that is not in the in-process lookup, the
\* snapshot get_result builds from the store has total_found equal to the
\* length of its results.
C36_StoredSnapshotFoundIsLength ==
    \A t \in TaskIds :
        t \notin tasks => get_results_from_db(t).fc = get_results_from_db(t).n

\* C37: when the store refuses the initial task row, start_scan ends with the
\* exception of the store and leaves nothing behind: no record in the lookup,
\* no row, no driver thread, no unit submitted or queued.
C37_FailedPersistLeavesNoTrace ==
    \A t \in TaskIds :
        (~store_up /\ stocks[t] # <<>>)
        => /\ sres[t] = "failed"
           /\ t \notin tasks /\ status[t] = "none" /\ total_count[t] = 0
           /\ db_task[t] = NoRow /\ db_results[t] = <<>>
           /\ pc[t] = "none" /\ workq = <<>>
           /\ \A u \in Units : ust[t][u] = "none"

\* a custom list was resolved while the store was down, and the call failed
C37_Witness ==
    \E t \in TaskIds :
        /\ ~store_up /\ request.stock_pool = "custom"
        /\ stocks[t] # <<>> /\ sres[t] = "failed"

\* C38: once delete_task has returned True for a task, the task is in neither
\* the in-process lookup nor the store (no task row, no result rows), whatever
\* start_scan, the driver thread and its flushes do before or afterwards.
C38_DeletedTaskStaysAbsent ==
    \A t \in TaskIds :
        dret[t] = "true"
        => /\ t \notin tasks
           /\ db_task[t] = NoRow
           /\ db_results[t] = <<>>

\* C39: a cancel_scan call made while the status of the task is running is
\* never answered False, also after cleanup_old_tasks has run.
C39_RunningTaskCanBeCancelled ==
    [][\A t \in TaskIds :
          (status[t] = "running" /\ cpc[t] = "idle" /\ cret[t] # "false")
          => cret'[t] # "false"]_vars

\* C40: a progress stream that has ended has emitted at least one snapshot and
\* its last snapshot has a terminal status, also when the task was deleted or
\* reaped from the lookup while the observer was connected.
C40_EndedStreamEndsOnTerminal ==
    \A t \in TaskIds :
        opc[t] = "closed"
        => /\ stream[t] # <<>>
           /\ stream[t][Len(stream[t])].st \in Terminal

\* ------------------------------------------------------- specification
\* the driver threads, the pool, the units and the cancel requests
Next ==
    \/ \E t \in TaskIds : start_scan(t)
    \/ \E t \in TaskIds : start_scan_register(t)
    \/ \E t \in TaskIds : Submit(t)
    \/ \E t \in TaskIds : SubmitRaises(t)
    \/ \E t \in TaskIds : AsCompleted(t)
    \/ \E t \in TaskIds : DriverCheck(t)
    \/ \E t \in TaskIds : DriverInc(t)
    \/ \E t \in TaskIds : DriverExtend(t)
    \/ \E t \in TaskIds : DriverFound(t)
    \/ \E t \in TaskIds : DriverFinal(t)
    \/ \E t \in TaskIds : DriverFlush(t)
    \/ \E t \in TaskIds : DriverExcept(t)
    \/ \E t \in TaskIds : DriverComplete(t)
    \/ WorkerTake
    \/ \E t \in TaskIds, u \in Units : UnitCheck(t, u)
    \/ \E t \in TaskIds, u \in Units : UnitSetCurrent(t, u)
    \/ \E t \in TaskIds, u \in Units, k \in 0..MaxPoints : EngineReturn(t, u, k)
    \/ \E t \in TaskIds, u \in Units : EngineRaise(t, u)
    \/ \E t \in TaskIds : CancelCall(t)
    \/ \E t \in TaskIds : CancelSet(t)

Spec == Init /\ [][Next]_vars

\* the same, with the clock of the per-unit timeout: a call in the engine may
\* be seen to have run longer than SINGLE_STOCK_TIMEOUT.  The code never reads
\* that clock for a running call, so the record evolves as under Spec.
NextTimed ==
    \/ Next
    \/ \E t \in TaskIds, u \in Units : EngineSlow(t, u)

TimedSpec == Init /\ [][NextTimed]_vars

\* Scheduling: a thread that can take its next step does so, and an engine
\* call either returns or goes on past the timeout.  Nothing makes a call that
\* has exceeded the timeout return, and nothing makes a cancel request or a
\* dispatch failure happen.
Fairness ==
    /\ \A t \in TaskIds :
          /\ WF_vars(start_scan_register(t))
          /\ WF_vars(Submit(t))
          /\ WF_vars(AsCompleted(t))
          /\ WF_vars(DriverCheck(t))
          /\ WF_vars(DriverInc(t))
          /\ WF_vars(DriverExtend(t))
          /\ WF_vars(DriverFound(t))
          /\ WF_vars(DriverFinal(t))
          /\ WF_vars(DriverFlush(t))
          /\ WF_vars(DriverExcept(t))
          /\ WF_vars(DriverComplete(t))
          /\ WF_vars(CancelSet(t))
    /\ WF_vars(WorkerTake)
    /\ \A t \in TaskIds : \A u \in Units :
          /\ WF_vars(UnitCheck(t, u))
          /\ WF_vars(UnitSetCurrent(t, u))
          /\ WF_vars(~slow[t][u] /\ (EngineSlow(t, u) \/ EngineRaise(t, u)
                                        \/ \E k \in 0..MaxPoints : EngineReturn(t, u, k)))

FairSpec == TimedSpec /\ Fairness

\* the same on a pool that earlier tasks have filled with their units
NextShared ==
    \/ NextTimed
    \/ EarlierReturn

\* Scheduling as above, and every engine call of the task that is followed
\* returns, slow or not.  Nothing makes the calls of the earlier tasks return:
\* no timeout interrupts scan_single_stock.
ReturnFairness ==
    /\ Fairness
    /\ \A t \in TaskIds : \A u \in Units :
          WF_vars(EngineRaise(t, u) \/ \E k \in 0..MaxPoints : EngineReturn(t, u, k))

SharedSpec == InitShared /\ [][NextShared]_vars /\ ReturnFairness

\* the same when the calls of the earlier tasks return as well
SharedReturnSpec == SharedSpec /\ WF_vars(EarlierReturn)

\* the same with delete_task calls on the task
DeleteSteps ==
    \E t \in TaskIds :
        \/ delete_task(t)
        \/ delete_task_cancel(t)
        \/ delete_task_cancel_set(t)
        \/ delete_task_rows(t)
        \/ delete_task_remove(t)

NextDelete ==
    \/ Next
    \/ DeleteSteps

DeleteSpec == InitDelete /\ [][NextDelete]_vars

\* the same with observers: get_result calls run concurrently with everything;
\* they write nothing but their own snapshot
NextObs ==
    \/ Next
    \/ \E t \in TaskIds : GetResultRead(t)
    \/ \E t \in TaskIds : GetResultCopy(t)

ObsSpec == Init /\ [][NextObs]_vars

\* the same with a store that can go down and come back at any moment
NextStore ==
    \/ Next
    \/ StoreFail
    \/ StoreRecover

StoreSpec == Init /\ [][NextStore]_vars

\* the same with one progress stream per task
NextStream ==
    \/ Next
    \/ \E t \in TaskIds : get_scan_progress(t)
    \/ \E t \in TaskIds : get_progress(t)
    \/ \E t \in TaskIds : to_progress(t)
    \/ \E t \in TaskIds : event_generator(t)

StreamSpec == InitStream /\ [][NextStream]_vars

\* the same with the clock and the reaper of the lookup, which nothing in the
\* service calls: it runs whenever its owner decides, with any horizon
NextReaper ==
    \/ Next
    \/ Tick
    \/ \E max_age_seconds \in 0..MaxClock : cleanup_call(max_age_seconds)
    \/ cleanup_old_tasks

ReaperSpec == InitReaper /\ [][NextReaper]_vars

\* an observed scan whose task can be deleted
NextWatch ==
    \/ NextStream
    \/ DeleteSteps

WatchSpec == InitReaper /\ [][NextWatch]_vars

\* an observed scan whose task can be reaped from the lookup
NextReapWatch ==
    \/ NextStream
    \/ Tick
    \/ \E max_age_seconds \in 0..MaxClock : cleanup_call(max_age_seconds)
    \/ cleanup_old_tasks

ReapWatchSpec == InitReaper /\ [][NextReapWatch]_vars

\* the orchestration on requests with and without a repeated code
PoolSpec == InitPool /\ [][Next]_vars

\* start_scan alone, on the bounded space of requests and catalogs
NextResolver ==
    \/ \E t \in TaskIds : start_scan(t)
    \/ \E t \in TaskIds : start_scan_register(t)

ResolverSpec == InitResolver /\ [][NextResolver]_vars

\* ScanTask.progress alone, on the bounded space of counters
NextProgress == CallProgress

ProgressSpec == InitProgress /\ [][NextProgress]_vars

\* filter_buy_points alone, on the bounded space of calls
NextFilter == CallFilter

FilterSpec == InitFilter /\ [][NextFilter]_vars

====
